---- MODULE Spec2Model ----
(***************************************************************************)
(* A model of the Laravel validation parser of the Outbound extension      *)
(* (src/modules/routes/parser.ts).  Source text is modelled as TLA+        *)
(* strings; an index is a JavaScript (0-based) index.  A value that may be *)
(* null/undefined is a sequence of length 0 (null) or 1 (the value).       *)
(***************************************************************************)
EXTENDS Integers, Sequences, FiniteSets, TLC

VARIABLES
    pc,        \* "ready" before the operation under study ran, "done" after
    op,        \* the operation applied to the input
    input,     \* the arguments of the operation (a record)
    output,    \* the value the operation returned
    files,     \* the files of the workspace, path -> text
    formRequestCache,   \* RouteParser.formRequestCache, class name -> result
    parsers,   \* the formRequestCache of every RouteParser constructed so far
    calls,     \* the calls made so far, finished or not: of parseRoute on those
               \* parsers, of getDefaultValueForType, on the route storage
    routeStorage   \* RouteStorage.routes of the global storage, key -> route

vars == <<pc, op, input, output, files, formRequestCache, parsers, calls,
          routeStorage>>

\* the state outside of the operation under study
world == <<files, formRequestCache, parsers, calls, routeStorage>>

(***************************************************************************)
(* JavaScript values and string primitives                                 *)
(***************************************************************************)
Null == <<>>
Some(v) == <<v>>
IsNull(m) == m = <<>>
Val(m) == m[1]

\* content[i]: the character at a 0-based index, "" standing for undefined
CharAt(s, i) == IF i >= 0 /\ i < Len(s) THEN SubSeq(s, i + 1, i + 1) ELSE ""

Min(a, b) == IF a < b THEN a ELSE b
Max(a, b) == IF a > b THEN a ELSE b
SetMin(S) == CHOOSE x \in S : \A y \in S : x <= y
SetMax(S) == CHOOSE x \in S : \A y \in S : x >= y

\* the element of a set of one element; in Only({F(x) : x \in {e}}) the
\* value e is computed once, however often F uses x
Only(S) == CHOOSE v \in S : TRUE

\* String.prototype.substring(a, b), with its clamping of both indices
Substring(s, a, b) ==
    LET lo == Max(0, Min(Min(a, b), Len(s)))
        hi == Max(0, Min(Max(a, b), Len(s)))
    IN  SubSeq(s, lo + 1, hi)

IsSpace(c) == c \in {" ", "\n", "\t", "\r"}

(***************************************************************************)
(* Regular expressions.  A pattern is a tree of records; Match walks it    *)
(* the way a backtracking matcher does (alternatives left to right, greedy *)
(* quantifiers longest first, lazy ones shortest first), so that the match *)
(* found is the one RegExp.prototype.exec finds.  Every quantifier of the  *)
(* parser's patterns is over a single character class.                     *)
(***************************************************************************)
Lit(s) == [t |-> "lit", s |-> s]
Cls(set) == [t |-> "cls", neg |-> FALSE, set |-> set]
NotCls(set) == [t |-> "cls", neg |-> TRUE, set |-> set]
Cat(rs) == [t |-> "seq", rs |-> rs]
Alt(rs) == [t |-> "alt", rs |-> rs]
Star(r) == [t |-> "star", greedy |-> TRUE, r |-> r]
StarLazy(r) == [t |-> "star", greedy |-> FALSE, r |-> r]
Plus(r) == Cat(<<r, Star(r)>>)
Opt(r) == [t |-> "opt", r |-> r]
Grp(n, r) == [t |-> "grp", n |-> n, r |-> r]
BackRef(n) == [t |-> "ref", n |-> n]
Bol == [t |-> "bol"]
Eol == [t |-> "eol"]

Lower == {"a", "b", "c", "d", "e", "f", "g", "h", "i", "j", "k", "l", "m",
          "n", "o", "p", "q", "r", "s", "t", "u", "v", "w", "x", "y", "z"}
Upper == {"A", "B", "C", "D", "E", "F", "G", "H", "I", "J", "K", "L", "M",
          "N", "O", "P", "Q", "R", "S", "T", "U", "V", "W", "X", "Y", "Z"}
Digit == {"0", "1", "2", "3", "4", "5", "6", "7", "8", "9"}
Space == Cls({" ", "\n", "\t", "\r"})          \* \s
NotSpace == NotCls({" ", "\n", "\t", "\r"})    \* \S
Word == Cls(Lower \cup Upper \cup Digit \cup {"_"})   \* \w
AnyChar == NotCls({})                          \* [\s\S]
Dot == NotCls({"\n", "\r"})                    \* .

NoCaps == <<<<-1, -1>>, <<-1, -1>>>>

RECURSIVE Match(_, _, _, _)
\* k: the patterns still to match, in order; the result is <<>> when they
\* do not match at pos and otherwise the one match, [end, caps]
Match(k, s, pos, caps) ==
    IF Len(k) = 0
    THEN <<[end |-> pos, caps |-> caps]>>
    ELSE LET r == Head(k)
             rest == Tail(k)
         IN  CASE r.t = "lit" ->
                    IF pos + Len(r.s) <= Len(s)
                       /\ SubSeq(s, pos + 1, pos + Len(r.s)) = r.s
                    THEN Match(rest, s, pos + Len(r.s), caps)
                    ELSE <<>>
               [] r.t = "cls" ->
                    IF pos < Len(s) /\ ((CharAt(s, pos) \in r.set) # r.neg)
                    THEN Match(rest, s, pos + 1, caps)
                    ELSE <<>>
               [] r.t = "seq" -> Match(r.rs \o rest, s, pos, caps)
               [] r.t = "alt" ->
                    IF Len(r.rs) = 0
                    THEN <<>>
                    ELSE LET m == Match(<<Head(r.rs)>> \o rest, s, pos, caps)
                         IN  IF Len(m) > 0
                             THEN m
                             ELSE Match(<<Alt(Tail(r.rs))>> \o rest, s, pos, caps)
               [] r.t = "opt" ->
                    LET m == Match(<<r.r>> \o rest, s, pos, caps)
                    IN  IF Len(m) > 0 THEN m ELSE Match(rest, s, pos, caps)
               [] r.t = "star" ->
                    \* r.r is a character class: the run of its characters from
                    \* pos ends at stop, and the ends the rest matches from are
                    \* tried longest first (greedy) or shortest first (lazy)
                    LET bad == {j \in pos..(Len(s) - 1) :
                                  (CharAt(s, j) \in r.r.set) = r.r.neg}
                        stop == IF bad = {} THEN Len(s) ELSE SetMin(bad)
                    IN  Only({IF ok = {}
                              THEN <<>>
                              ELSE (CHOOSE a \in ok : \A b \in ok :
                                        IF r.greedy THEN b[1] <= a[1]
                                                    ELSE a[1] <= b[1])[2] :
                              ok \in {{a \in {<<e, Match(rest, s, e, caps)>> :
                                                 e \in pos..stop} : Len(a[2]) > 0}}})
               [] r.t = "grp" ->
                    Match(<<[t |-> "open", n |-> r.n], r.r, [t |-> "close", n |-> r.n]>>
                          \o rest, s, pos, caps)
               [] r.t = "open" ->
                    Match(rest, s, pos, [caps EXCEPT ![r.n] = <<pos, -1>>])
               [] r.t = "close" ->
                    Match(rest, s, pos, [caps EXCEPT ![r.n] = <<caps[r.n][1], pos>>])
               [] r.t = "ref" ->
                    Match(<<Lit(Substring(s, caps[r.n][1], caps[r.n][2]))>> \o rest,
                          s, pos, caps)
               [] r.t = "bol" -> IF pos = 0 THEN Match(rest, s, pos, caps) ELSE <<>>
               [] r.t = "eol" -> IF pos = Len(s) THEN Match(rest, s, pos, caps) ELSE <<>>

\* regex.exec(s) with lastIndex = from: null, or the leftmost match as
\* [index, end, caps], end being index + match[0].length
Exec(re, s, from) ==
    Only({IF found = {}
          THEN Null
          ELSE LET first == CHOOSE a \in found : \A b \in found : a[1] <= b[1]
               IN  Some([index |-> first[1], end |-> first[2][1].end,
                         caps |-> first[2][1].caps]) :
          found \in {{a \in {<<i, Match(<<re>>, s, i, NoCaps)>> : i \in from..Len(s)} :
                       Len(a[2]) > 0}}})

\* match[n] of a match m on s
Group(s, m, n) == Substring(s, m.caps[n][1], m.caps[n][2])

(***************************************************************************)
(* extractBracketedContent                                                 *)
(***************************************************************************)
RECURSIVE Iterate(_, _, _)
\* st after at most n passes through a loop whose one pass is Step; a pass
\* on which the loop condition fails leaves st as it is, and the loop is over
Iterate(Step(_), st, n) ==
    Only({IF n = 0 \/ Step(s) = s
          THEN s
          ELSE IF n = 1
          THEN Step(s)
          ELSE Iterate(Step, Iterate(Step, s, n \div 2), n - (n \div 2)) :
          s \in {st}})

\* BracketStep without the count of nested '[': the scan stops at the first ']'
BracketStepFirstClose(content, st) ==
    IF st[1] > 0 /\ st[2] < Len(content)
    THEN IF CharAt(content, st[2]) = "]"
         THEN <<st[1] - 1, st[2] + 1>>
         ELSE <<st[1], st[2] + 1>>
    ELSE st

\* one pass through the while loop of extractBracketedContent, st being
\* <<bracketCount, index>>
BracketStep(content, st) ==
    IF st[1] > 0 /\ st[2] < Len(content)
    THEN LET char == CharAt(content, st[2])
         IN  IF char = "["
             THEN <<st[1] + 1, st[2] + 1>>
             ELSE IF char = "]"
                  THEN <<st[1] - 1, st[2] + 1>>
                  ELSE <<st[1], st[2] + 1>>
    ELSE st

\* BracketLoop with the passes of BracketStepFirstClose
BracketLoopFirstClose(content, bracketCount, index) ==
    Iterate(LAMBDA st : BracketStepFirstClose(content, st), <<bracketCount, index>>,
            Max(Len(content) - index, 0))

\* the while loop of extractBracketedContent: the pair <<bracketCount, index>>
\* with which the loop is left
BracketLoop(content, bracketCount, index) ==
    Iterate(LAMBDA st : BracketStep(content, st), <<bracketCount, index>>,
            Max(Len(content) - index, 0))

\* extractBracketedContent without its bracketCount === 0 test: the text
\* scanned so far is returned also when the bracket is never closed
extractBracketedContentPartial(content, startIndex) ==
    IF CharAt(content, startIndex) # "["
    THEN Null
    ELSE Some(Substring(content, startIndex + 1,
                        BracketLoop(content, 1, startIndex + 1)[2] - 1))

extractBracketedContent(content, startIndex) ==
    IF CharAt(content, startIndex) # "["
    THEN Null
    ELSE Only({IF end[1] = 0
               THEN Some(Substring(content, startIndex + 1, end[2] - 1))
               ELSE Null :
               end \in {BracketLoop(content, 1, startIndex + 1)}})

(***************************************************************************)
(* extractMethodContent                                                    *)
(***************************************************************************)
\* new RegExp(`(?:public|protected|private)\s+function\s+${methodName}\s*
\*   \(([\s\S]*?)\)\s*(?::\s*\S+)?\s*(?:\/\/[^\n]*)?\s*\{`, 'g')
methodRegex(methodName) ==
    Cat(<<Alt(<<Lit("public"), Lit("protected"), Lit("private")>>), Plus(Space),
          Lit("function"), Plus(Space), Lit(methodName), Star(Space), Lit("("),
          Grp(1, StarLazy(AnyChar)), Lit(")"), Star(Space),
          Opt(Cat(<<Lit(":"), Star(Space), Plus(NotSpace)>>)), Star(Space),
          Opt(Cat(<<Lit("//"), Star(NotCls({"\n"}))>>)), Star(Space), Lit("{")>>)

\* new RegExp(`function\s+${methodName}\s*\([^{]*\{`, 'g')
simpleRegex(methodName) ==
    Cat(<<Lit("function"), Plus(Space), Lit(methodName), Star(Space), Lit("("),
          Star(NotCls({"{"})), Lit("{")>>)

\* one pass through the while loop that looks for the closing brace, st
\* being <<braceCount, endIndex>>
BraceStep(classContent, st) ==
    IF st[1] > 0 /\ st[2] < Len(classContent)
    THEN LET char == CharAt(classContent, st[2])
         IN  IF char = "{"
             THEN <<st[1] + 1, st[2] + 1>>
             ELSE IF char = "}"
                  THEN <<st[1] - 1, st[2] + 1>>
                  ELSE <<st[1], st[2] + 1>>
    ELSE st

\* the while loop that looks for the closing brace: the endIndex with which
\* the loop is left
BraceLoop(classContent, braceCount, endIndex) ==
    Iterate(LAMBDA st : BraceStep(classContent, st), <<braceCount, endIndex>>,
            Max(Len(classContent) - endIndex, 0))[2]

extractMethodContent(classContent, methodName) ==
    Only({IF IsNull(match)
          THEN Only({IF IsNull(simpleMatch)
                     THEN Null
                     ELSE Some(Substring(classContent, Val(simpleMatch).index,
                                         BraceLoop(classContent, 1,
                                                   Val(simpleMatch).end))) :
                     simpleMatch \in {Exec(simpleRegex(methodName), classContent, 0)}})
          ELSE Some(Substring(classContent, Val(match).index,
                              BraceLoop(classContent, 1, Val(match).end))) :
          match \in {Exec(methodRegex(methodName), classContent, 0)}})

(***************************************************************************)
(* parseRulesList                                                          *)
(***************************************************************************)
RECURSIVE TrimStart(_)
TrimStart(s) == IF Len(s) > 0 /\ IsSpace(Head(s)) THEN TrimStart(Tail(s)) ELSE s

RECURSIVE TrimEnd(_)
TrimEnd(s) ==
    IF Len(s) > 0 /\ IsSpace(CharAt(s, Len(s) - 1))
    THEN TrimEnd(SubSeq(s, 1, Len(s) - 1))
    ELSE s

\* String.prototype.trim()
Trim(s) == TrimEnd(TrimStart(s))

IsQuote(c) == c \in {"'", "\""}

\* s.replace(/^['"]|['"]$/g, ''): one quote off the start, one off the end
StripQuotes(s) ==
    LET a == IF Len(s) > 0 /\ IsQuote(Head(s)) THEN Tail(s) ELSE s
    IN  IF Len(a) > 0 /\ IsQuote(CharAt(a, Len(a) - 1))
        THEN SubSeq(a, 1, Len(a) - 1)
        ELSE a

\* the rule pushed for the text collected in current, if any
PushRule(rules, current) ==
    LET trimmed == StripQuotes(Trim(current))
    IN  IF trimmed # "" THEN Append(rules, trimmed) ELSE rules

\* IsSplit without the parenDepth === 0 test
IsSplitIgnoringParens(content, i, st) ==
    /\ ~st.inString
    /\ CharAt(content, i) = ","
    /\ st.bracketDepth = 0

\* whether the for loop of parseRulesList ends a token at the character i
\* of content, st being the loop's variables on entry to that iteration
IsSplit(content, i, st) ==
    /\ ~st.inString
    /\ CharAt(content, i) = ","
    /\ st.bracketDepth = 0
    /\ st.parenDepth = 0

\* one iteration of the for loop of parseRulesList
RulesListStep(content, i, st) ==
    LET char == CharAt(content, i)
        more == [st EXCEPT !.current = st.current \o char]
    IN  IF st.inString
        THEN IF char = st.stringChar /\ CharAt(content, i - 1) # "\\"
             THEN [more EXCEPT !.inString = FALSE]
             ELSE more
        ELSE IF IsQuote(char)
        THEN [more EXCEPT !.inString = TRUE, !.stringChar = char]
        ELSE IF char = "["
        THEN [more EXCEPT !.bracketDepth = st.bracketDepth + 1]
        ELSE IF char = "]"
        THEN [more EXCEPT !.bracketDepth = st.bracketDepth - 1]
        ELSE IF char = "("
        THEN [more EXCEPT !.parenDepth = st.parenDepth + 1]
        ELSE IF char = ")"
        THEN [more EXCEPT !.parenDepth = st.parenDepth - 1]
        ELSE IF IsSplit(content, i, st)
        THEN [st EXCEPT !.rules = PushRule(st.rules, st.current), !.current = ""]
        ELSE more

RulesListInit ==
    [rules |-> <<>>, current |-> "", bracketDepth |-> 0, parenDepth |-> 0,
     inString |-> FALSE, stringChar |-> ""]

RECURSIVE RulesListRange(_, _, _, _)
\* the loop's variables after the iterations lo .. hi - 1, st being the
\* variables on entry to the iteration lo
RulesListRange(content, st, lo, hi) ==
    IF hi <= lo
    THEN st
    ELSE IF hi = lo + 1
    THEN RulesListStep(content, lo, st)
    ELSE Only({RulesListRange(content, half, (lo + hi) \div 2, hi) :
               half \in {RulesListRange(content, st, lo, (lo + hi) \div 2)}})

\* the loop's variables after its first n iterations (on entry to i = n)
RulesListLoop(content, n) == RulesListRange(content, RulesListInit, 0, n)

parseRulesList(content) ==
    LET st == RulesListLoop(content, Len(content))
    IN  PushRule(st.rules, st.current)

(***************************************************************************)
(* Record<string, string[]>: a JavaScript object as the sequence of its    *)
(* <<key, value>> entries in property order (Object.entries order):        *)
(* integer-like keys ascending, then the other keys in insertion order.    *)
(* Keys of ten or more digits are not among the inputs of this model.      *)
(***************************************************************************)
DigitValue(c) ==
    CASE c = "0" -> 0 [] c = "1" -> 1 [] c = "2" -> 2 [] c = "3" -> 3 [] c = "4" -> 4
      [] c = "5" -> 5 [] c = "6" -> 6 [] c = "7" -> 7 [] c = "8" -> 8 [] c = "9" -> 9

RECURSIVE ToNumber(_)
ToNumber(k) ==
    IF k = "" THEN 0
    ELSE 10 * ToNumber(SubSeq(k, 1, Len(k) - 1)) + DigitValue(CharAt(k, Len(k) - 1))

IsArrayIndex(k) ==
    /\ Len(k) > 0
    /\ \A i \in 0..(Len(k) - 1) : CharAt(k, i) \in Digit
    /\ (Len(k) > 1 => Head(k) # "0")

ObjHas(obj, k) == \E i \in 1..Len(obj) : obj[i][1] = k
ObjGet(obj, k) == obj[CHOOSE i \in 1..Len(obj) : obj[i][1] = k][2]
ObjKeys(obj) == [i \in 1..Len(obj) |-> obj[i][1]]

\* obj[k] = v
ObjSet(obj, k, v) ==
    IF ObjHas(obj, k)
    THEN [i \in 1..Len(obj) |-> IF obj[i][1] = k THEN <<k, v>> ELSE obj[i]]
    ELSE IF IsArrayIndex(k)
    THEN LET before == {i \in 1..Len(obj) :
                           IsArrayIndex(obj[i][1]) /\ ToNumber(obj[i][1]) < ToNumber(k)}
             n == Cardinality(before)
         IN  SubSeq(obj, 1, n) \o <<<<k, v>>>> \o SubSeq(obj, n + 1, Len(obj))
    ELSE Append(obj, <<k, v>>)

(***************************************************************************)
(* parseRulesArray                                                         *)
(***************************************************************************)
\* /['"]([^'"]+)['"]\s*=>/g
fieldPattern ==
    Cat(<<Cls({"'", "\""}), Grp(1, Plus(NotCls({"'", "\""}))), Cls({"'", "\""}),
          Star(Space), Lit("=>")>>)

\* /^(['"])(.*?)\1/
stringPattern == Cat(<<Bol, Grp(1, Cls({"'", "\""})), Grp(2, StarLazy(Dot)), BackRef(1)>>)

RECURSIVE SkipSpace(_, _)
\* while (valueIndex < arrayContent.length && /\s/.test(arrayContent[valueIndex]))
SkipSpace(arrayContent, valueIndex) ==
    IF valueIndex < Len(arrayContent) /\ IsSpace(CharAt(arrayContent, valueIndex))
    THEN SkipSpace(arrayContent, valueIndex + 1)
    ELSE valueIndex

RECURSIVE Split(_, _)
\* String.prototype.split(sep) for a separator of one character
Split(s, sep) ==
    IF \E i \in 0..(Len(s) - 1) : CharAt(s, i) = sep
    THEN LET i == CHOOSE j \in 0..(Len(s) - 1) :
                      /\ CharAt(s, j) = sep
                      /\ \A k \in 0..(j - 1) : CharAt(s, k) # sep
         IN  <<Substring(s, 0, i)>> \o Split(Substring(s, i + 1, Len(s)), sep)
    ELSE <<s>>

\* a truthy string | null
Truthy(m) == ~IsNull(m) /\ Val(m) # ""

\* FieldRules without the trim of the rules of a pipe-delimited string
FieldRulesUntrimmed(arrayContent, valueIndex) ==
    LET valueChar == CharAt(arrayContent, valueIndex)
        bracketContent == extractBracketedContent(arrayContent, valueIndex)
        rest == Substring(arrayContent, valueIndex, Len(arrayContent))
        stringMatch == Exec(stringPattern, rest, 0)
    IN  IF valueChar = "["
        THEN IF Truthy(bracketContent)
             THEN parseRulesList(Val(bracketContent))
             ELSE <<>>
        ELSE IF IsQuote(valueChar) /\ ~IsNull(stringMatch)
        THEN Split(Group(rest, Val(stringMatch), 2), "|")
        ELSE <<>>

\* the rules read for the field whose value starts at valueIndex
FieldRules(arrayContent, valueIndex) ==
    LET valueChar == CharAt(arrayContent, valueIndex)
        rest == Substring(arrayContent, valueIndex, Len(arrayContent))
    IN  IF valueChar = "["
        THEN Only({IF Truthy(bracketContent)
                   THEN parseRulesList(Val(bracketContent))
                   ELSE <<>> :
                   bracketContent \in {extractBracketedContent(arrayContent,
                                                               valueIndex)}})
        ELSE IF IsQuote(valueChar)
        THEN Only({IF ~IsNull(stringMatch) /\ Val(stringMatch).index = 0
                   THEN Only({[i \in 1..Len(parts) |-> Trim(parts[i])] :
                              parts \in {Split(Group(rest, Val(stringMatch), 2),
                                               "|")}})
                   ELSE <<>> :
                   stringMatch \in {Exec(stringPattern, rest, 0)}})
        ELSE <<>>

RECURSIVE RulesArrayLoop(_, _, _)
\* the while loop over the matches of fieldPattern, from lastIndex on
RulesArrayLoop(arrayContent, lastIndex, rules) ==
    Only({IF IsNull(fieldMatch)
          THEN rules
          ELSE Only({IF valueIndex >= Len(arrayContent)
                     THEN RulesArrayLoop(arrayContent, Val(fieldMatch).end, rules)
                     ELSE Only({RulesArrayLoop(arrayContent, Val(fieldMatch).end, next) :
                                next \in {Only({IF Len(fieldRules) > 0
                                                THEN ObjSet(rules,
                                                            Group(arrayContent,
                                                                  Val(fieldMatch), 1),
                                                            fieldRules)
                                                ELSE rules :
                                                fieldRules \in {FieldRules(arrayContent,
                                                                           valueIndex)}})}}) :
                     valueIndex \in {SkipSpace(arrayContent, Val(fieldMatch).end)}}) :
          fieldMatch \in {Exec(fieldPattern, arrayContent, lastIndex)}})

parseRulesArray(arrayContent) == RulesArrayLoop(arrayContent, 0, <<>>)

(***************************************************************************)
(* inferTypeFromRules                                                      *)
(***************************************************************************)
UpperSeq == <<"A", "B", "C", "D", "E", "F", "G", "H", "I", "J", "K", "L", "M",
              "N", "O", "P", "Q", "R", "S", "T", "U", "V", "W", "X", "Y", "Z">>
LowerSeq == <<"a", "b", "c", "d", "e", "f", "g", "h", "i", "j", "k", "l", "m",
              "n", "o", "p", "q", "r", "s", "t", "u", "v", "w", "x", "y", "z">>

RECURSIVE ToLowerCase(_)
\* String.prototype.toLowerCase()
ToLowerCase(s) ==
    IF s = ""
    THEN ""
    ELSE LET c == Head(s)
         IN  (IF c \in Upper
              THEN LowerSeq[CHOOSE i \in 1..26 : UpperSeq[i] = c]
              ELSE c) \o ToLowerCase(Tail(s))

\* r.split(':')[0].toLowerCase() without the split: the whole token
RuleNameWithArguments(r) == ToLowerCase(r)

\* r.split(':')[0].toLowerCase()
RuleName(r) == ToLowerCase(Split(r, ":")[1])

\* inferTypeFromRules with the array test moved in front of the number test
inferTypeFromRulesArrayFirst(rules) ==
    LET ruleSet == {RuleName(rules[i]) : i \in 1..Len(rules)}
    IN  IF "integer" \in ruleSet \/ ("numeric" \in ruleSet /\ "integer" \in ruleSet)
        THEN "integer"
        ELSE IF "array" \in ruleSet
        THEN "array"
        ELSE IF "numeric" \in ruleSet \/ "decimal" \in ruleSet
        THEN "number"
        ELSE IF "boolean" \in ruleSet \/ "bool" \in ruleSet
        THEN "boolean"
        ELSE IF {"file", "image", "mimes", "mimetypes"} \cap ruleSet # {}
        THEN "file"
        ELSE IF {"date", "date_format", "after", "before"} \cap ruleSet # {}
        THEN "date"
        ELSE IF "email" \in ruleSet
        THEN "email"
        ELSE IF "url" \in ruleSet \/ "active_url" \in ruleSet
        THEN "url"
        ELSE IF "uuid" \in ruleSet
        THEN "uuid"
        ELSE IF "json" \in ruleSet
        THEN "object"
        ELSE "string"

inferTypeFromRules(rules) ==
    LET ruleSet == {RuleName(rules[i]) : i \in 1..Len(rules)}
    IN  IF "integer" \in ruleSet \/ ("numeric" \in ruleSet /\ "integer" \in ruleSet)
        THEN "integer"
        ELSE IF "numeric" \in ruleSet \/ "decimal" \in ruleSet
        THEN "number"
        ELSE IF "boolean" \in ruleSet \/ "bool" \in ruleSet
        THEN "boolean"
        ELSE IF "array" \in ruleSet
        THEN "array"
        ELSE IF "file" \in ruleSet \/ "image" \in ruleSet \/ "mimes" \in ruleSet
                \/ "mimetypes" \in ruleSet
        THEN "file"
        ELSE IF "date" \in ruleSet \/ "date_format" \in ruleSet \/ "after" \in ruleSet
                \/ "before" \in ruleSet
        THEN "date"
        ELSE IF "email" \in ruleSet
        THEN "email"
        ELSE IF "url" \in ruleSet \/ "active_url" \in ruleSet
        THEN "url"
        ELSE IF "uuid" \in ruleSet
        THEN "uuid"
        ELSE IF "json" \in ruleSet
        THEN "object"
        ELSE "string"

RECURSIVE Join(_, _)
\* the elements of a non-empty sequence of strings, sep between them
Join(seq, sep) ==
    IF Len(seq) = 1 THEN seq[1] ELSE seq[1] \o sep \o Join(Tail(seq), sep)

(***************************************************************************)
(* RouteRequestParam and the schema builder                                *)
(***************************************************************************)
StartsWith(s, prefix) ==
    Len(s) >= Len(prefix) /\ SubSeq(s, 1, Len(prefix)) = prefix

\* the first element of seq that satisfies Test(_), or null (Array.find)
Find(seq, Test(_)) ==
    IF \E i \in 1..Len(seq) : Test(seq[i])
    THEN Some(seq[SetMin({i \in 1..Len(seq) : Test(seq[i])})])
    ELSE Null

\* extractEnumValues without the trim of the candidates
extractEnumValuesUntrimmed(rules) ==
    LET IsIn(r) == StartsWith(r, "in:")
        inRule == Find(rules, IsIn)
    IN  IF ~IsNull(inRule)
        THEN Some(Split(Substring(Val(inRule), 3, Len(Val(inRule))), ","))
        ELSE Null

extractEnumValues(rules) ==
    LET IsIn(r) == StartsWith(r, "in:")
        inRule == Find(rules, IsIn)
    IN  IF ~IsNull(inRule)
        THEN LET values == Split(Substring(Val(inRule), 3, Len(Val(inRule))), ",")
             IN  Some([i \in 1..Len(values) |-> Trim(values[i])])
        ELSE Null

RECURSIVE DescriptionParts(_)
\* the constraint parts generateDescription adds for the rules, in order
DescriptionParts(rules) ==
    IF Len(rules) = 0
    THEN <<>>
    ELSE LET rule == Head(rules)
             part == IF StartsWith(rule, "max:")
                     THEN <<"Max: " \o Substring(rule, 4, Len(rule))>>
                     ELSE IF StartsWith(rule, "min:")
                     THEN <<"Min: " \o Substring(rule, 4, Len(rule))>>
                     ELSE IF StartsWith(rule, "size:")
                     THEN <<"Size: " \o Substring(rule, 5, Len(rule))>>
                     ELSE IF StartsWith(rule, "in:")
                     THEN <<"Allowed: " \o Substring(rule, 3, Len(rule))>>
                     ELSE <<>>
         IN  part \o DescriptionParts(Tail(rules))

generateDescription(name, rules) ==
    Join(<<"Type: " \o inferTypeFromRules(rules)>> \o DescriptionParts(rules), ", ")

\* Array.prototype.includes
Includes(seq, x) == \E i \in 1..Len(seq) : seq[i] = x

createParam(name, rules) ==
    [name |-> name,
     type |-> inferTypeFromRules(rules),
     required |-> Includes(rules, "required"),
     rules |-> rules,
     isPathParam |-> FALSE,
     enumValues |-> extractEnumValues(rules),
     description |-> Some(generateDescription(name, rules)),
     children |-> Null]

\* the root node addNestedParam creates
NewRootParam(rootName) ==
    [name |-> rootName, type |-> "array", required |-> FALSE, rules |-> <<>>,
     isPathParam |-> FALSE, enumValues |-> Null, description |-> Null,
     children |-> Some(<<>>)]

\* the index in params of the first node of that name, 0 when there is none
IndexOfName(params, name) ==
    IF \E i \in 1..Len(params) : params[i].name = name
    THEN SetMin({i \in 1..Len(params) : params[i].name = name})
    ELSE 0

\* parts.slice(from).join('.')
JoinFrom(parts, from) ==
    IF from > Len(parts) - 1 THEN "" ELSE Join(SubSeq(parts, from + 1, Len(parts)), ".")

\* addNestedParam without the wildcard branch: every dotted key is taken
\* as nested object notation
addNestedParamNoWildcard(params, fieldPath, rules) ==
    LET parts == Split(fieldPath, ".")
        rootName == parts[1]
        found == IndexOfName(params, rootName)
        withRoot == IF found = 0 THEN Append(params, NewRootParam(rootName)) ELSE params
        at == IF found = 0 THEN Len(withRoot) ELSE found
        rootParam == withRoot[at]
        children == IF IsNull(rootParam.children) THEN <<>> ELSE Val(rootParam.children)
        childName == JoinFrom(parts, 1)
        newChildren == IF IndexOfName(children, childName) = 0
                       THEN Append(children, createParam(childName, rules))
                       ELSE children
    IN  [withRoot EXCEPT ![at] =
            [rootParam EXCEPT !.children = Some(newChildren), !.type = "object"]]

\* params after addNestedParam(params, fieldPath, rules)
addNestedParam(params, fieldPath, rules) ==
    LET parts == Split(fieldPath, ".")
        rootName == parts[1]
        found == IndexOfName(params, rootName)
        withRoot == IF found = 0 THEN Append(params, NewRootParam(rootName)) ELSE params
        at == IF found = 0 THEN Len(withRoot) ELSE found
        rootParam == withRoot[at]
        children == IF IsNull(rootParam.children) THEN <<>> ELSE Val(rootParam.children)
        wildcard == Len(parts) >= 2 /\ parts[2] = "*"
        childName == IF wildcard THEN JoinFrom(parts, 2) ELSE JoinFrom(parts, 1)
        existingChild == IndexOfName(children, childName) # 0
        newChildren ==
            IF wildcard
            THEN IF childName # "" /\ ~existingChild
                 THEN Append(children, createParam(childName, rules))
                 ELSE children
            ELSE IF ~existingChild
                 THEN Append(children, createParam(childName, rules))
                 ELSE children
    IN  [withRoot EXCEPT ![at] =
            [rootParam EXCEPT !.children = Some(newChildren),
                              !.type = IF wildcard THEN rootParam.type ELSE "object"]]

RECURSIVE ValidationRulesLoop(_, _)
\* the for loop of parseValidationRules over the entries still to visit
ValidationRulesLoop(entries, params) ==
    IF Len(entries) = 0
    THEN params
    ELSE LET fieldName == Head(entries)[1]
             fieldRules == Head(entries)[2]
         IN  Only({ValidationRulesLoop(Tail(entries), next) :
                   next \in {IF \E i \in 0..(Len(fieldName) - 1) :
                                    CharAt(fieldName, i) = "."
                             THEN addNestedParam(params, fieldName, fieldRules)
                             ELSE Append(params, createParam(fieldName, fieldRules))}})

parseValidationRules(rules) ==
    Only({ValidationRulesLoop(entries, <<>>) : entries \in {rules}})

(***************************************************************************)
(* extractPathParams                                                       *)
(***************************************************************************)
\* the pattern without the optional '?': /\{(\w+)}/g
pathParamRegexNoOptional == Cat(<<Lit("{"), Grp(1, Plus(Word)), Lit("}")>>)

\* /\{(\w+)\??}/g
pathParamRegex == Cat(<<Lit("{"), Grp(1, Plus(Word)), Opt(Lit("?")), Lit("}")>>)

RECURSIVE PathParamsLoop(_, _, _)
\* the while loop over the matches of the pattern, from lastIndex on
PathParamsLoop(uri, lastIndex, params) ==
    Only({IF IsNull(match)
          THEN params
          ELSE LET paramName == Group(uri, Val(match), 1)
                   text == Substring(uri, Val(match).index, Val(match).end)
                   isOptional == \E i \in 0..(Len(text) - 1) : CharAt(text, i) = "?"
               IN  Only({PathParamsLoop(uri, Val(match).end, next) :
                         next \in {Append(params,
                            [name |-> paramName, type |-> "string",
                             required |-> ~isOptional, rules |-> <<>>,
                             isPathParam |-> TRUE, enumValues |-> Null,
                             description |-> Some("Path parameter: " \o paramName),
                             children |-> Null])}}) :
          match \in {Exec(pathParamRegex, uri, lastIndex)}})

extractPathParams(uri) == PathParamsLoop(uri, 0, <<>>)

(***************************************************************************)
(* The workspace: files maps the absolute path of every file to its text   *)
(***************************************************************************)
WorkspacePath == "/w"

\* path.join(a, b) for segments that need no normalisation
PathJoin(a, b) == a \o "/" \o b

\* fs.existsSync(path)
ExistsSync(fs, path) == ObjHas(fs, path)

\* fs.readFileSync(path, 'utf-8') of an existing file
ReadFileSync(fs, path) == ObjGet(fs, path)

\* Map.prototype.set: entries stay in insertion order
MapSet(map, k, v) ==
    IF ObjHas(map, k)
    THEN [i \in 1..Len(map) |-> IF map[i][1] = k THEN <<k, v>> ELSE map[i]]
    ELSE Append(map, <<k, v>>)

\* the glob **/Http/Requests/**/<class>.php on a path relative to the workspace
IncludeGlob(formRequestClass) ==
    Cat(<<Bol, Opt(Cat(<<Star(AnyChar), Lit("/")>>)), Lit("Http/Requests/"),
          Opt(Cat(<<Star(AnyChar), Lit("/")>>)), Lit(formRequestClass \o ".php"), Eol>>)

\* the glob **/vendor/**
ExcludeGlob ==
    Cat(<<Bol, Opt(Cat(<<Star(AnyChar), Lit("/")>>)), Lit("vendor/"), Star(AnyChar), Eol>>)

Matches(glob, text) == Len(Match(<<glob>>, text, 0, NoCaps)) > 0

\* the paths vscode.workspace.findFiles finds for the class
FindFiles(fs, formRequestClass) ==
    {fs[i][1] : i \in {j \in 1..Len(fs) :
        LET relative == Substring(fs[j][1], Len(WorkspacePath) + 1, Len(fs[j][1]))
        IN  /\ StartsWith(fs[j][1], WorkspacePath \o "/")
            /\ Matches(IncludeGlob(formRequestClass), relative)
            /\ ~Matches(ExcludeGlob, relative)}}

\* what files[0] of a search can be: null for an empty result, else any of
\* the paths found (the API promises no order)
FirstFound(fs, formRequestClass) ==
    Only({IF paths = {} THEN {Null} ELSE {Some(path) : path \in paths} :
          paths \in {FindFiles(fs, formRequestClass)}})

(***************************************************************************)
(* parseControllerString                                                   *)
(***************************************************************************)
\* String.prototype.lastIndexOf for one character
LastIndexOf(s, c) ==
    IF \E i \in 0..(Len(s) - 1) : CharAt(s, i) = c
    THEN SetMax({i \in 0..(Len(s) - 1) : CharAt(s, i) = c})
    ELSE -1

RECURSIVE ReplaceAll(_, _, _)
\* s.replace(/c/g, to) for one character c
ReplaceAll(s, c, to) ==
    IF s = ""
    THEN ""
    ELSE (IF Head(s) = c THEN to ELSE Head(s)) \o ReplaceAll(Tail(s), c, to)

parseControllerString(controllerString) ==
    LET atIndex == LastIndexOf(controllerString, "@")
        className == IF atIndex = -1
                     THEN controllerString
                     ELSE Substring(controllerString, 0, atIndex)
        method == IF atIndex = -1
                  THEN "__invoke"
                  ELSE Substring(controllerString, atIndex + 1, Len(controllerString))
        slashed == ReplaceAll(className, "\\", "/")
        relativePath == (IF StartsWith(slashed, "App/")
                         THEN "app/" \o Substring(slashed, 4, Len(slashed))
                         ELSE slashed) \o ".php"
    IN  [path |-> PathJoin(WorkspacePath, relativePath), method |-> method]

(***************************************************************************)
(* findFormRequestInjection                                                *)
(***************************************************************************)
\* new RegExp(`function\s+${methodName}\s*\(([^)]*)\)`, 'g')
signatureRegex(methodName) ==
    Cat(<<Lit("function"), Plus(Space), Lit(methodName), Star(Space), Lit("("),
          Grp(1, Star(NotCls({")"}))), Lit(")")>>)

\* /(\w+Request)\s+\$\w+/g
formRequestRegex ==
    Cat(<<Grp(1, Cat(<<Plus(Word), Lit("Request")>>)), Plus(Space), Lit("$"),
          Plus(Word)>>)

findFormRequestInjection(classContent, methodName) ==
    Only({IF IsNull(match)
          THEN Null
          ELSE Only({IF ~IsNull(formRequestMatch)
                        /\ Group(params, Val(formRequestMatch), 1) # "Request"
                     THEN Some(Group(params, Val(formRequestMatch), 1))
                     ELSE Null :
                     <<params, formRequestMatch>> \in
                         {<<text, Exec(formRequestRegex, text, 0)>> :
                             text \in {Group(classContent, Val(match), 1)}}}) :
          match \in {Exec(signatureRegex(methodName), classContent, 0)}})

(***************************************************************************)
(* parseFormRequest and its cache                                          *)
(***************************************************************************)
\* /return\s*\[([\s\S]*?)\];/m
returnRegex ==
    Cat(<<Lit("return"), Star(Space), Lit("["), Grp(1, StarLazy(AnyChar)), Lit("];")>>)

extractRulesFromFormRequest(content) ==
    Only({IF ~Truthy(rulesMethod)
          THEN <<>>
          ELSE Only({IF IsNull(returnMatch)
                     THEN <<>>
                     ELSE parseRulesArray(Group(Val(rulesMethod), Val(returnMatch), 1)) :
                     returnMatch \in {Exec(returnRegex, Val(rulesMethod), 0)}}) :
          rulesMethod \in {extractMethodContent(content, "rules")}})

\* the ParsedValidation built from the Form Request file at path
FormRequestResult(fs, formRequestClass, path) ==
    [source |-> "form-request",
     formRequestClass |-> Some(formRequestClass),
     formRequestPath |-> Some(path),
     params |-> parseValidationRules(extractRulesFromFormRequest(ReadFileSync(fs, path)))]

\* parseFormRequest(formRequestClass) with the cache as it is on entry and
\* found the first file of the workspace search (null: none): the value
\* returned and the cache on return
parseFormRequest(fs, cache, formRequestClass, found) ==
    LET directPath == PathJoin(WorkspacePath,
                               "app/Http/Requests/" \o formRequestClass \o ".php")
    IN  IF ObjHas(cache, formRequestClass)
        THEN [result |-> ObjGet(cache, formRequestClass), cache |-> cache]
        ELSE IF ExistsSync(fs, directPath)
        THEN Only({[result |-> Some(result),
                    cache |-> MapSet(cache, formRequestClass, Some(result))] :
                   result \in {FormRequestResult(fs, formRequestClass, directPath)}})
        ELSE IF ~IsNull(found)
        THEN Only({[result |-> Some(result),
                    cache |-> MapSet(cache, formRequestClass, Some(result))] :
                   result \in {FormRequestResult(fs, formRequestClass, Val(found))}})
        ELSE [result |-> Null, cache |-> MapSet(cache, formRequestClass, Null)]

(***************************************************************************)
(* parseInlineValidation                                                   *)
(***************************************************************************)
validationStarts ==
    << \* /\$request->validate\s*\(\s*\[/
       Cat(<<Lit("$request->validate"), Star(Space), Lit("("), Star(Space), Lit("[")>>),
       \* /\$this->validate\s*\(\s*\$request\s*,\s*\[/
       Cat(<<Lit("$this->validate"), Star(Space), Lit("("), Star(Space),
             Lit("$request"), Star(Space), Lit(","), Star(Space), Lit("[")>>),
       \* /Validator::make\s*\([^[]*\[/
       Cat(<<Lit("Validator::make"), Star(Space), Lit("("), Star(NotCls({"["})),
             Lit("[")>>),
       \* /request\(\)->validate\s*\(\s*\[/
       Cat(<<Lit("request()->validate"), Star(Space), Lit("("), Star(Space), Lit("[")>>),
       \* /Request::validate\s*\(\s*\[/
       Cat(<<Lit("Request::validate"), Star(Space), Lit("("), Star(Space), Lit("[")>>),
       \* /\$request->validateWithBag\s*\([^,]+,\s*\[/
       Cat(<<Lit("$request->validateWithBag"), Star(Space), Lit("("),
             Plus(NotCls({","})), Lit(","), Star(Space), Lit("[")>>),
       \* /Validator::validate\s*\([^[]*\[/
       Cat(<<Lit("Validator::validate"), Star(Space), Lit("("), Star(NotCls({"["})),
             Lit("[")>>) >>

RECURSIVE InlineLoopFirstMatchDecides(_, _)
\* InlineLoop returning after the first pattern that matches, whatever its
\* array gives
InlineLoopFirstMatchDecides(methodContent, n) ==
    IF n > Len(validationStarts)
    THEN Null
    ELSE Only({IF IsNull(startMatch)
               THEN InlineLoopFirstMatchDecides(methodContent, n + 1)
               ELSE Only({IF ~Truthy(arrayContent)
                          THEN Null
                          ELSE Only({IF Len(ObjKeys(rules)) > 0
                                     THEN Some([source |-> "inline",
                                                formRequestClass |-> Null,
                                                formRequestPath |-> Null,
                                                params |-> parseValidationRules(rules)])
                                     ELSE Null :
                                     rules \in {parseRulesArray(Val(arrayContent))}}) :
                          arrayContent \in
                              {extractBracketedContent(methodContent,
                                                       Val(startMatch).end - 1)}}) :
               startMatch \in {Exec(validationStarts[n], methodContent, 0)}})

RECURSIVE InlineLoop(_, _)
\* the for loop over validationStarts, from the n-th pattern on
InlineLoop(methodContent, n) ==
    IF n > Len(validationStarts)
    THEN Null
    ELSE Only({IF IsNull(startMatch)
               THEN InlineLoop(methodContent, n + 1)
               ELSE Only({IF ~Truthy(arrayContent)
                          THEN InlineLoop(methodContent, n + 1)
                          ELSE Only({IF Len(ObjKeys(rules)) > 0
                                     THEN Some([source |-> "inline",
                                                formRequestClass |-> Null,
                                                formRequestPath |-> Null,
                                                params |-> parseValidationRules(rules)])
                                     ELSE InlineLoop(methodContent, n + 1) :
                                     rules \in {parseRulesArray(Val(arrayContent))}}) :
                          arrayContent \in
                              {extractBracketedContent(methodContent,
                                                       Val(startMatch).end - 1)}}) :
               startMatch \in {Exec(validationStarts[n], methodContent, 0)}})

parseInlineValidation(methodContent) == InlineLoop(methodContent, 1)

(***************************************************************************)
(* parseControllerValidation and parseRoute                                *)
(***************************************************************************)
\* the Form Request class parseControllerValidation resolves for the
\* controller method, null when it resolves none
FormRequestOf(fs, controllerPath, methodName) ==
    IF ~ExistsSync(fs, controllerPath)
    THEN Null
    ELSE IF ~Truthy(extractMethodContent(ReadFileSync(fs, controllerPath), methodName))
    THEN Null
    ELSE Only({IF Truthy(formRequestMatch) THEN formRequestMatch ELSE Null :
               formRequestMatch \in
                   {findFormRequestInjection(ReadFileSync(fs, controllerPath),
                                             methodName)}})

\* parseControllerValidation with the two checks in the other order: the
\* inline rules are looked for first, the Form Request only without them
parseControllerValidationInlineFirst(fs, cache, controllerPath, methodName, found) ==
    LET content == ReadFileSync(fs, controllerPath)
        methodContent == extractMethodContent(content, methodName)
        formRequestMatch == findFormRequestInjection(content, methodName)
    IN  IF ~ExistsSync(fs, controllerPath)
        THEN [result |-> Null, cache |-> cache]
        ELSE IF ~Truthy(methodContent)
        THEN [result |-> Null, cache |-> cache]
        ELSE IF ~IsNull(parseInlineValidation(Val(methodContent)))
        THEN [result |-> parseInlineValidation(Val(methodContent)), cache |-> cache]
        ELSE IF Truthy(formRequestMatch)
        THEN parseFormRequest(fs, cache, Val(formRequestMatch), found)
        ELSE [result |-> Null, cache |-> cache]

\* parseControllerValidation without the return that follows the Form
\* Request: the inline rules of the method are added to the result
parseControllerValidationMerging(fs, cache, controllerPath, methodName, found) ==
    LET content == ReadFileSync(fs, controllerPath)
        methodContent == extractMethodContent(content, methodName)
        formRequestMatch == findFormRequestInjection(content, methodName)
        parsed == parseFormRequest(fs, cache, Val(formRequestMatch), found)
        inlineValidation == parseInlineValidation(Val(methodContent))
    IN  IF ~ExistsSync(fs, controllerPath)
        THEN [result |-> Null, cache |-> cache]
        ELSE IF ~Truthy(methodContent)
        THEN [result |-> Null, cache |-> cache]
        ELSE IF Truthy(formRequestMatch)
        THEN IF IsNull(parsed.result) \/ IsNull(inlineValidation)
             THEN parsed
             ELSE [result |-> Some([Val(parsed.result) EXCEPT
                                       !.params = @ \o Val(inlineValidation).params]),
                   cache |-> parsed.cache]
        ELSE [result |-> inlineValidation, cache |-> cache]

\* parseControllerValidation(controllerPath, methodName): the value returned
\* and the cache on return
parseControllerValidation(fs, cache, controllerPath, methodName, found) ==
    IF ~ExistsSync(fs, controllerPath)
    THEN [result |-> Null, cache |-> cache]
    ELSE Only({IF ~Truthy(methodContent)
               THEN [result |-> Null, cache |-> cache]
               ELSE Only({IF Truthy(formRequestMatch)
                          THEN parseFormRequest(fs, cache, Val(formRequestMatch), found)
                          ELSE [result |-> parseInlineValidation(Val(methodContent)),
                                cache |-> cache] :
                          formRequestMatch \in
                              {findFormRequestInjection(
                                   ReadFileSync(fs, controllerPath), methodName)}}) :
               methodContent \in
                   {extractMethodContent(ReadFileSync(fs, controllerPath),
                                         methodName)}})

\* parseRoute(route): the route returned, the validation it was built from
\* and the cache on return
parseRoute(fs, cache, route, found) ==
    IF Truthy(route.controller)
    THEN Only({[route |->
                  [route EXCEPT
                      !.controllerPath = Some(controllerInfo.path),
                      !.controllerMethod = Some(controllerInfo.method),
                      !.requestParams =
                          IF ~IsNull(parsed.result)
                          THEN Some(pathParams \o Val(parsed.result).params)
                          ELSE Some(pathParams),
                      !.formRequestClass =
                          IF ~IsNull(parsed.result)
                          THEN Val(parsed.result).formRequestClass
                          ELSE route.formRequestClass],
                validation |-> parsed.result,
                cache |-> parsed.cache] :
               <<pathParams, controllerInfo, parsed>> \in
                   {<<extractPathParams(route.uri), info,
                      parseControllerValidation(fs, cache, info.path, info.method,
                                                found)>> :
                       info \in {parseControllerString(Val(route.controller))}}})
    ELSE [route |-> [route EXCEPT !.requestParams = Some(extractPathParams(route.uri))],
          validation |-> Null,
          cache |-> cache]

(***************************************************************************)
(* parseRoute in two steps: up to the await of the workspace search in     *)
(* parseFormRequest, and from the result of the search on                  *)
(***************************************************************************)
\* the cache of a new parser taken over from the parser constructed before it
SharedFormRequestCache == IF Len(parsers) = 0 THEN <<>> ELSE parsers[Len(parsers)]

\* formRequestCache = new Map(): the cache of a RouteParser just constructed
NewFormRequestCache == <<>>

\* a file-system operation, with the method that performs it
FsOp(by, kind, arg) == [by |-> by, op |-> kind, arg |-> arg]

\* path.join(this.workspacePath, `app/Http/Requests/${formRequestClass}.php`)
DirectPath(formRequestClass) ==
    PathJoin(WorkspacePath, "app/Http/Requests/" \o formRequestClass \o ".php")

\* parseFormRequest up to the await of findFiles: the cache on leaving, the
\* file-system operations performed, and either the value returned
\* (state "resolved") or nothing yet (state "searching")
parseFormRequestBeforeSearch(fs, cache, formRequestClass) ==
    IF ObjHas(cache, formRequestClass)
    THEN [state |-> "resolved", result |-> ObjGet(cache, formRequestClass),
          cache |-> cache, ops |-> <<>>]
    ELSE IF ExistsSync(fs, DirectPath(formRequestClass))
    THEN Only({[state |-> "resolved", result |-> Some(result),
                cache |-> MapSet(cache, formRequestClass, Some(result)),
                ops |-> <<FsOp("parseFormRequest", "existsSync",
                               DirectPath(formRequestClass)),
                          FsOp("parseFormRequest", "readFileSync",
                               DirectPath(formRequestClass))>>] :
               result \in {FormRequestResult(fs, formRequestClass,
                                             DirectPath(formRequestClass))}})
    ELSE [state |-> "searching", result |-> Null, cache |-> cache,
          ops |-> <<FsOp("parseFormRequest", "existsSync", DirectPath(formRequestClass)),
                    FsOp("parseFormRequest", "findFiles", formRequestClass)>>]

\* parseFormRequestAfterSearch that leaves the cache alone when nothing was found
parseFormRequestAfterSearchNoMissCached(fs, cache, formRequestClass, found) ==
    IF ~IsNull(found)
    THEN Only({[result |-> Some(result),
                cache |-> MapSet(cache, formRequestClass, Some(result)),
                ops |-> <<FsOp("parseFormRequest", "readFileSync", Val(found))>>] :
               result \in {FormRequestResult(fs, formRequestClass, Val(found))}})
    ELSE [result |-> Null, cache |-> cache, ops |-> <<>>]

\* parseFormRequest from the result of findFiles on, found being files[0]
\* (null: no file): the value returned, the cache on return and the
\* file-system operations performed
parseFormRequestAfterSearch(fs, cache, formRequestClass, found) ==
    IF ~IsNull(found)
    THEN Only({[result |-> Some(result),
                cache |-> MapSet(cache, formRequestClass, Some(result)),
                ops |-> <<FsOp("parseFormRequest", "readFileSync", Val(found))>>] :
               result \in {FormRequestResult(fs, formRequestClass, Val(found))}})
    ELSE [result |-> Null, cache |-> MapSet(cache, formRequestClass, Null), ops |-> <<>>]

\* parseControllerValidation up to the first await that does not resolve at
\* once: the Form Request class it resolves (null: none), the validation
\* when it has one already, the cache and the file-system operations
parseControllerValidationBeforeSearch(fs, cache, controllerPath, methodName) ==
    IF ~ExistsSync(fs, controllerPath)
    THEN [class |-> Null, state |-> "resolved", result |-> Null, cache |-> cache,
          ops |-> <<FsOp("parseControllerValidation", "existsSync", controllerPath)>>]
    ELSE Only({
        IF ~Truthy(methodContent)
        THEN [class |-> Null, state |-> "resolved", result |-> Null, cache |-> cache,
              ops |-> controllerOps]
        ELSE Only({
            IF Truthy(formRequestMatch)
            THEN Only({[class |-> formRequestMatch, state |-> begun.state,
                        result |-> begun.result, cache |-> begun.cache,
                        ops |-> controllerOps \o begun.ops] :
                       begun \in {parseFormRequestBeforeSearch(fs, cache,
                                                               Val(formRequestMatch))}})
            ELSE [class |-> Null, state |-> "resolved",
                  result |-> parseInlineValidation(Val(methodContent)),
                  cache |-> cache, ops |-> controllerOps] :
            formRequestMatch \in
                {findFormRequestInjection(ReadFileSync(fs, controllerPath), methodName)}}) :
        <<methodContent, controllerOps>> \in
            {<<extractMethodContent(ReadFileSync(fs, controllerPath), methodName),
               <<FsOp("parseControllerValidation", "existsSync", controllerPath),
                 FsOp("parseControllerValidation", "readFileSync", controllerPath)>>>>}})

\* parseRoute up to that await
parseRouteBeforeSearch(fs, cache, route) ==
    IF Truthy(route.controller)
    THEN Only({parseControllerValidationBeforeSearch(fs, cache, info.path, info.method) :
               info \in {parseControllerString(Val(route.controller))}})
    ELSE [class |-> Null, state |-> "resolved", result |-> Null, cache |-> cache,
          ops |-> <<>>]

\* the route parseRoute returns once parseControllerValidation has returned
\* validation
parseRouteReturn(route, validation) ==
    IF Truthy(route.controller)
    THEN Only({[route EXCEPT
                    !.controllerPath = Some(info.path),
                    !.controllerMethod = Some(info.method),
                    !.requestParams =
                        IF ~IsNull(validation)
                        THEN Some(pathParams \o Val(validation).params)
                        ELSE Some(pathParams),
                    !.formRequestClass =
                        IF ~IsNull(validation)
                        THEN Val(validation).formRequestClass
                        ELSE route.formRequestClass] :
               <<pathParams, info>> \in
                   {<<extractPathParams(route.uri),
                      parseControllerString(Val(route.controller))>>}})
    ELSE [route EXCEPT !.requestParams = Some(extractPathParams(route.uri))]

(***************************************************************************)
(* SpecText: the text functions of the parser, each applied once to an     *)
(* input drawn from a bounded set of texts.                                *)
(***************************************************************************)
MaxScanLen == 4     \* longest generated text for the bracket and brace scans
MaxListLen == 4     \* longest generated rule list
MaxRules == 3       \* most rules in a generated pipe-delimited string

RECURSIVE Strings(_, _)
\* the strings over chars of length at most n
Strings(chars, n) ==
    IF n = 0
    THEN {""}
    ELSE LET shorter == Strings(chars, n - 1)
         IN  shorter \cup {s \o c : s \in {t \in shorter : Len(t) = n - 1}, c \in chars}

BracketChars == {"[", "]", "'", "\\", "a"}
BraceChars == {"{", "}", "'", "a"}
ListChars == {",", "'", "[", "]", "(", ")", "a"}

BracketTexts ==
    Strings(BracketChars, MaxScanLen)
        \cup {"['a]', 'b']", "[\"]\", 'b']", "['a\\']', 'b']", "x['a' => ['b', 'c']]"}

MethodDecls == {"public function f(){", "function f(){", "private function g(){"}

ClassTexts ==
    {d \o b : d \in MethodDecls, b \in Strings(BraceChars, MaxScanLen)}
        \cup {"public function f(){ return '}'; } public function g(){}",
              "function f(){ $a = \"{\"; }"}

RuleListTexts ==
    Strings(ListChars, MaxListLen)
        \cup {"Rule::in(['a','b']), 'required'",
              "'required', 'string', 'max:255'",
              "'in:a,b', \"regex:/^[a-z,]+$/\", Rule::unique('users', 'email')"}

\* mappings whose first field has a bracket-delimited value that may be cut short
RuleArrayTexts ==
    {"'a' => " \o v \o ", 'b' => 'required'" :
        v \in {"[" \o t : t \in Strings(ListChars, MaxListLen - 1)}}

\* rule names as written in a pipe-delimited string, with their trimmed form
RuleNames ==
    {<<"required", "required">>, <<"string", "string">>, <<"max:255", "max:255">>,
     <<" email ", "email">>}

RECURSIVE Tuples(_, _)
\* the sequences over S of length 1..n
Tuples(S, n) ==
    IF n = 0
    THEN {}
    ELSE {<<x>> : x \in S}
            \cup {Append(t, x) : t \in Tuples(S, n - 1), x \in S}

\* mappings whose first field has a pipe-delimited string value
PipeInputs ==
    {[arrayContent |-> "'f' => " \o q \o Join([i \in 1..Len(n) |-> n[i][1]], "|") \o q
                          \o ", 'g' => 'integer'",
      names |-> n] : n \in Tuples(RuleNames, MaxRules), q \in {"'", "\""}}

TextInputs(o) ==
    CASE o = "extractBracketedContent" ->
            {[content |-> p[1], startIndex |-> p[2]] :
                p \in {q \in BracketTexts \X (0..(MaxScanLen + 1)) : q[2] <= Len(q[1])}}
      [] o = "extractMethodContent" ->
            {[classContent |-> c, methodName |-> "f"] : c \in ClassTexts}
      [] o = "parseRulesList" -> {[content |-> c] : c \in RuleListTexts}
      [] o = "parseRulesArray" ->
            {[arrayContent |-> c, names |-> <<>>] : c \in RuleArrayTexts} \cup PipeInputs

TextOps == {"extractBracketedContent", "extractMethodContent", "parseRulesList",
            "parseRulesArray"}

InitText ==
    /\ pc = "ready"
    /\ op \in TextOps
    /\ input \in TextInputs(op)
    /\ output = Null
    /\ files = <<>>
    /\ formRequestCache = <<>>
    /\ parsers = <<>>
    /\ calls = <<>>
    /\ routeStorage = <<>>

ExtractBracketedContent ==
    /\ pc = "ready"
    /\ op = "extractBracketedContent"
    /\ output' = extractBracketedContent(input.content, input.startIndex)
    /\ pc' = "done"
    /\ UNCHANGED <<op, input, world>>

ExtractMethodContent ==
    /\ pc = "ready"
    /\ op = "extractMethodContent"
    /\ output' = extractMethodContent(input.classContent, input.methodName)
    /\ pc' = "done"
    /\ UNCHANGED <<op, input, world>>

ParseRulesList ==
    /\ pc = "ready"
    /\ op = "parseRulesList"
    /\ output' = parseRulesList(input.content)
    /\ pc' = "done"
    /\ UNCHANGED <<op, input, world>>

ParseRulesArray ==
    /\ pc = "ready"
    /\ op = "parseRulesArray"
    /\ output' = parseRulesArray(input.arrayContent)
    /\ pc' = "done"
    /\ UNCHANGED <<op, input, world>>

NextText ==
    \/ ExtractBracketedContent
    \/ ExtractMethodContent
    \/ ParseRulesList
    \/ ParseRulesArray

SpecText == InitText /\ [][NextText]_vars

(***************************************************************************)
(* Properties of the delimiter scans (SpecText)                            *)
(***************************************************************************)
Done(o) == pc = "done" /\ op = o

\* occurrences of open minus occurrences of close among text[from..to]
Balance(text, open, close, from, to) ==
    Cardinality({k \in from..to : CharAt(text, k) = open})
        - Cardinality({k \in from..to : CharAt(text, k) = close})

\* the indices at which the bracket opened at startIndex could be closed:
\* every '[' of content[startIndex..j] has its ']' in that range
Closers(content, startIndex) ==
    {j \in (startIndex + 1)..(Len(content) - 1) :
        /\ CharAt(content, j) = "]"
        /\ Balance(content, "[", "]", startIndex, j) = 0}

\* the '}' that close a brace opened just before index from
BraceClosers(classContent, from) ==
    {j \in from..(Len(classContent) - 1) :
        /\ CharAt(classContent, j) = "}"
        /\ Balance(classContent, "{", "}", from, j) = -1}

\* the declaration of the method as extractMethodContent locates it
Declaration(classContent, methodName) ==
    IF IsNull(Exec(methodRegex(methodName), classContent, 0))
    THEN Exec(simpleRegex(methodName), classContent, 0)
    ELSE Exec(methodRegex(methodName), classContent, 0)

RECURSIVE QuoteAwareScan(_, _, _, _, _, _)
\* the scan of spec 4.1: from index, with depth delimiters open and quote the
\* quote character of the string literal the scan is in ("" outside of one),
\* the index one past the matching closing delimiter, or -1 (unmatched)
QuoteAwareScan(text, open, close, index, depth, quote) ==
    IF index >= Len(text)
    THEN -1
    ELSE LET char == CharAt(text, index)
         IN  IF quote # ""
             THEN IF char = "\\"
                  THEN QuoteAwareScan(text, open, close, index + 2, depth, quote)
                  ELSE IF char = quote
                       THEN QuoteAwareScan(text, open, close, index + 1, depth, "")
                       ELSE QuoteAwareScan(text, open, close, index + 1, depth, quote)
             ELSE IF IsQuote(char)
             THEN QuoteAwareScan(text, open, close, index + 1, depth, char)
             ELSE IF char = open
             THEN QuoteAwareScan(text, open, close, index + 1, depth + 1, quote)
             ELSE IF char = close
             THEN IF depth = 1
                  THEN index + 1
                  ELSE QuoteAwareScan(text, open, close, index + 1, depth - 1, quote)
             ELSE QuoteAwareScan(text, open, close, index + 1, depth, quote)

\* C3: the balanced-delimiter scan suspends depth counting inside quoted
\* string literals: extractBracketedContent returns the text up to the ']'
\* that matches outside of strings (null when there is none), and
\* extractMethodContent ends at the '}' that matches outside of strings.
C3_ScanSkipsQuotedDelimiters ==
    /\ (Done("extractBracketedContent")
            /\ CharAt(input.content, input.startIndex) = "[")
        => LET end == QuoteAwareScan(input.content, "[", "]",
                                     input.startIndex + 1, 1, "")
           IN  output = IF end = -1
                        THEN Null
                        ELSE Some(Substring(input.content, input.startIndex + 1,
                                            end - 1))
    /\ (Done("extractMethodContent") /\ ~IsNull(output))
        => LET decl == Val(Declaration(input.classContent, input.methodName))
               end == QuoteAwareScan(input.classContent, "{", "}", decl.end, 1, "")
           IN  end # -1 => output = Some(Substring(input.classContent, decl.index, end))

\* C4: extractBracketedContent returns the text strictly between the '[' at
\* startIndex and the first ']' that brings the nesting depth back to zero,
\* null when no ']' does, and null when startIndex is not at a '['.
C4_BracketedContent ==
    Done("extractBracketedContent")
        => LET content == input.content
               startIndex == input.startIndex
               closers == Closers(content, startIndex)
           IN  IF CharAt(content, startIndex) # "[" \/ closers = {}
               THEN output = Null
               ELSE output = Some(Substring(content, startIndex + 1, SetMin(closers)))

\* C4 witness: a returned text that itself holds a nested '[' ... ']' pair
C4_Witness ==
    /\ Done("extractBracketedContent")
    /\ ~IsNull(output)
    /\ \E k \in 0..(Len(Val(output)) - 1) : CharAt(Val(output), k) = "["

\* whether the method's declaration is found and its '{' is never closed
BraceUnmatched ==
    /\ ~IsNull(Declaration(input.classContent, input.methodName))
    /\ BraceClosers(input.classContent,
                    Val(Declaration(input.classContent, input.methodName)).end) = {}

\* whether input.content has a '[' at startIndex that is never closed
BracketUnmatched ==
    /\ CharAt(input.content, input.startIndex) = "["
    /\ Closers(input.content, input.startIndex) = {}

\* where the value of the first field starts in the generated mappings
ValueIndexOfFirstField == Len("'a' => ")

\* C5 as stated: whenever the opening bracket or brace is never closed, the
\* scan returns the sentinel null to its caller.
C5_UnmatchedReturnsNull ==
    /\ (Done("extractBracketedContent") /\ BracketUnmatched) => output = Null
    /\ (Done("extractMethodContent") /\ BraceUnmatched) => output = Null

\* C5 amended: an unclosed '[' makes extractBracketedContent return null, and
\* parseRulesArray then records nothing for that field and goes on with the
\* next field; an unclosed '{' makes extractMethodContent return the text
\* from the declaration to the end of the input, not null.  Each of the
\* three returns a value on every input.
C5_UnmatchedIsNoException ==
    /\ (Done("extractBracketedContent") /\ BracketUnmatched) => output = Null
    /\ (Done("extractMethodContent") /\ BraceUnmatched)
        => output = Some(Substring(input.classContent,
                                   Val(Declaration(input.classContent,
                                                   input.methodName)).index,
                                   Len(input.classContent)))
    /\ (Done("parseRulesArray")
            /\ CharAt(input.arrayContent, ValueIndexOfFirstField) = "["
            /\ Closers(input.arrayContent, ValueIndexOfFirstField) = {})
        => output = <<<<"b", <<"required">>>>>>

\* C5 witness: a method whose brace is never closed has been extracted
C5_Witness == Done("extractMethodContent") /\ BraceUnmatched /\ ~IsNull(output)

\* C23: extractMethodContent returns null when the class text holds no
\* declaration of the method; when it holds one whose opening brace has a
\* matching closing brace, it returns the text from the start of the
\* declaration through that brace and nothing after it.
C23_DeclarationThroughMatchingBrace ==
    Done("extractMethodContent")
        => LET decl == Declaration(input.classContent, input.methodName)
           IN  IF IsNull(decl)
               THEN output = Null
               ELSE LET end == QuoteAwareScan(input.classContent, "{", "}",
                                              Val(decl).end, 1, "")
                    IN  end # -1
                            => output = Some(Substring(input.classContent,
                                                       Val(decl).index, end))

(***************************************************************************)
(* Properties of the rule tokenizers (SpecText)                            *)
(***************************************************************************)
\* whether index i of content lies outside of string literals, for a text
\* whose only quote character is ' and that has no backslash: an even
\* number of quotes precedes it
OutsideString(content, i) ==
    Cardinality({k \in 0..(i - 1) : CharAt(content, k) = "'"}) % 2 = 0

SimplyQuoted(content) ==
    \A k \in 0..(Len(content) - 1) : CharAt(content, k) \notin {"\"", "\\"}

\* occurrences of open minus occurrences of close before i, outside of strings
DepthBefore(content, open, close, i) ==
    Cardinality({k \in 0..(i - 1) : CharAt(content, k) = open /\ OutsideString(content, k)})
        - Cardinality({k \in 0..(i - 1) :
                          CharAt(content, k) = close /\ OutsideString(content, k)})

\* the commas at bracket depth 0 and paren depth 0 outside of strings
TopLevelCommas(content) ==
    {i \in 0..(Len(content) - 1) :
        /\ CharAt(content, i) = ","
        /\ OutsideString(content, i)
        /\ DepthBefore(content, "[", "]", i) = 0
        /\ DepthBefore(content, "(", ")", i) = 0}

\* the commas at which parseRulesList ends a token
SplitIndices(content) ==
    {i \in 0..(Len(content) - 1) : IsSplit(content, i, RulesListLoop(content, i))}

\* the n-th smallest element of a set of numbers
Nth(S, n) == CHOOSE x \in S : Cardinality({y \in S : y < x}) = n - 1

\* the pieces of content between the indices of cuts, in order
Pieces(content, cuts) ==
    [n \in 1..(Cardinality(cuts) + 1) |->
        Substring(content,
                  IF n = 1 THEN 0 ELSE Nth(cuts, n - 1) + 1,
                  IF n = Cardinality(cuts) + 1 THEN Len(content) ELSE Nth(cuts, n))]

NonEmpty(t) == t # ""

\* the pieces between the top-level commas, each trimmed and with one
\* enclosing quote taken off each end, the empty ones left out
TopLevelTokens(content) ==
    LET pieces == Pieces(content, TopLevelCommas(content))
    IN  SelectSeq([n \in 1..Len(pieces) |-> StripQuotes(Trim(pieces[n]))], NonEmpty)

\* C7: parseRulesList ends a token exactly at the commas that are at bracket
\* depth 0 and paren depth 0 outside of quoted strings; its tokens are the
\* pieces between those commas, in source order, and
\* Rule::in(['a','b']), 'required' gives two tokens, the first unchanged.
C7_SplitsAtTopLevelCommas ==
    Done("parseRulesList")
        => /\ SimplyQuoted(input.content)
                => /\ SplitIndices(input.content) = TopLevelCommas(input.content)
                   /\ output = TopLevelTokens(input.content)
           /\ input.content = "Rule::in(['a','b']), 'required'"
                => output = <<"Rule::in(['a','b'])", "required">>
           /\ input.content = "'in:a,b', \"regex:/^[a-z,]+$/\", Rule::unique('users', 'email')"
                => output = <<"in:a,b", "regex:/^[a-z,]+$/",
                              "Rule::unique('users', 'email')">>

\* C7 witness: the nested call of the example came out as the first of two tokens
C7_Witness ==
    /\ Done("parseRulesList")
    /\ Len(output) = 2
    /\ output[1] = "Rule::in(['a','b'])"

\* C8: a pipe-delimited rule string given as a field's value yields the
\* pipe-separated rule names in source order, each trimmed, nothing added
\* or dropped.
C8_PipeDelimitedRules ==
    (Done("parseRulesArray") /\ Len(input.names) > 0)
        => output = <<<<"f", [i \in 1..Len(input.names) |-> input.names[i][2]]>>,
                      <<"g", <<"integer">>>>>>

\* C8 witness: "required|string|max:255" has been tokenized
C8_Witness ==
    /\ Done("parseRulesArray")
    /\ Len(output) = 2
    /\ output[1] = <<"f", <<"required", "string", "max:255">>>>

(***************************************************************************)
(* SpecType: inferTypeFromRules applied once to a bounded list of rules    *)
(***************************************************************************)
MaxTypeRules == 2   \* most rules in a generated rule list

\* rule tokens, each with the rule name it carries (the text before the
\* first ':', in lower case)
TypeTokens ==
    {<<"integer", "integer">>, <<"Integer", "integer">>, <<"numeric", "numeric">>,
     <<"decimal:2", "decimal">>, <<"boolean", "boolean">>, <<"bool", "bool">>,
     <<"array", "array">>, <<"array:a,b", "array">>, <<"file", "file">>,
     <<"image", "image">>, <<"mimes:jpg,png", "mimes">>,
     <<"mimetypes:text/plain", "mimetypes">>, <<"date", "date">>,
     <<"date_format:Y-m-d", "date_format">>, <<"after:today", "after">>,
     <<"before:email", "before">>, <<"email", "email">>, <<"email:rfc", "email">>,
     <<"url", "url">>, <<"active_url", "active_url">>, <<"uuid", "uuid">>,
     <<"json", "json">>, <<"required", "required">>, <<"max:255", "max">>,
     <<"in:integer,file", "in">>, <<"string", "string">>}

TokenTexts(tokens) == [i \in 1..Len(tokens) |-> tokens[i][1]]

TypeInputs ==
    {[rules |-> TokenTexts(t), tokens |-> t] :
        t \in {<<>>} \cup Tuples(TypeTokens, MaxTypeRules)}

InitType ==
    /\ pc = "ready"
    /\ op = "inferTypeFromRules"
    /\ input \in TypeInputs
    /\ output = Null
    /\ files = <<>>
    /\ formRequestCache = <<>>
    /\ parsers = <<>>
    /\ calls = <<>>
    /\ routeStorage = <<>>

InferTypeFromRules ==
    /\ pc = "ready"
    /\ op = "inferTypeFromRules"
    /\ output' = Some(inferTypeFromRules(input.rules))
    /\ pc' = "done"
    /\ UNCHANGED <<op, input, world>>

NextType == InferTypeFromRules

SpecType == InitType /\ [][NextType]_vars

(***************************************************************************)
(* Properties of type inference (SpecType)                                 *)
(***************************************************************************)
\* the rule names of the input, as declared with its tokens
InputNames == {input.tokens[i][2] : i \in 1..Len(input.tokens)}

\* the rule names that give each type
TypeRules ==
    [integer |-> {"integer"}, number |-> {"numeric", "decimal"},
     boolean |-> {"boolean", "bool"}, array |-> {"array"},
     file |-> {"file", "image", "mimes", "mimetypes"},
     date |-> {"date", "date_format", "after", "before"}, email |-> {"email"},
     url |-> {"url", "active_url"}, uuid |-> {"uuid"}, object |-> {"json"}]

\* the first type of order one of whose rules is among names, else string
TypeByPrecedence(order, names) ==
    LET hits == {n \in 1..Len(order) : TypeRules[order[n]] \cap names # {}}
    IN  IF hits = {} THEN "string" ELSE order[SetMin(hits)]

\* file-like > boolean > integer > numeric > array > date > email > url > uuid > json
ClaimedOrder ==
    <<"file", "boolean", "integer", "number", "array", "date", "email", "url",
      "uuid", "object">>

\* integer > numeric > boolean > array > file-like > date > email > url > uuid > json
CodeOrder ==
    <<"integer", "number", "boolean", "array", "file", "date", "email", "url",
      "uuid", "object">>

\* C9 as stated: the type is the first of file-like > boolean > integer >
\* numeric > array > date > email > url > uuid > json(object) > string that
\* a rule of the list names, whatever the order of the rules.
C9_ClaimedPrecedence ==
    Done("inferTypeFromRules")
        => output = Some(TypeByPrecedence(ClaimedOrder, InputNames))

\* C9 amended: the type is the first of integer > numeric > boolean > array >
\* file-like > date > email > url > uuid > json(object) > string that a rule
\* of the list names, whatever the order of the rules.
C9_CodePrecedence ==
    Done("inferTypeFromRules")
        => output = Some(TypeByPrecedence(CodeOrder, InputNames))

\* C9 witness: 'boolean' listed before 'integer' has been typed integer
C9_Witness ==
    /\ Done("inferTypeFromRules")
    /\ input.rules = <<"boolean", "integer">>
    /\ output = Some("integer")

ParamTypes ==
    {"string", "integer", "number", "boolean", "array", "object", "file", "date",
     "email", "url", "uuid"}

\* rules with the element at i taken out
Without(rules, i) == SubSeq(rules, 1, i - 1) \o SubSeq(rules, i + 1, Len(rules))

\* C10: type inference returns one of the eleven types for every list, and
\* the type depends only on the set of rule names: it is the same for the
\* list with two rules swapped, with a rule replaced by any token of the same
\* name (other arguments, other case) and for the list without a rule whose
\* name another rule carries; 'numeric' with 'integer' gives integer.
C10_TotalOnNameSet ==
    Done("inferTypeFromRules")
        => LET rules == input.rules
               n == Len(rules)
           IN  /\ output \in {Some(t) : t \in ParamTypes}
               /\ \A i, j \in 1..n :
                    output = Some(inferTypeFromRules([rules EXCEPT ![i] = rules[j],
                                                                   ![j] = rules[i]]))
               /\ \A i \in 1..n : \A t \in TypeTokens :
                    t[2] = input.tokens[i][2]
                        => output = Some(inferTypeFromRules([rules EXCEPT ![i] = t[1]]))
               /\ \A i \in 1..n :
                    (\E j \in 1..n : j # i /\ input.tokens[j][2] = input.tokens[i][2])
                        => output = Some(inferTypeFromRules(Without(rules, i)))
               /\ {"numeric", "integer"} \subseteq InputNames => output = Some("integer")

\* C10 witness: 'numeric' followed by 'integer' has been typed integer
C10_Witness ==
    /\ Done("inferTypeFromRules")
    /\ input.rules = <<"numeric", "integer">>
    /\ output = Some("integer")

(***************************************************************************)
(* SpecRoute: parseRoute on the routes of a workspace whose controller     *)
(* and Form Request files hold the texts below                             *)
(***************************************************************************)
ControllerFile == "/w/app/C.php"

\* the parameter lists of the controller method
ParamLists == {"", "Request $request", "SRequest $r"}

\* the bodies of the controller method; the last three end or break off
\* inside a rules array
MethodBodies ==
    {"",
     "$request->validate(['a'=>'required|integer']);",
     "$request->validate([]);",
     "$this->validate($request, ['c' => 'boolean']);",
     "$request->validate(['a'=>['required'",
     "Validator::make($d,['b'=>'email']);$request->validate(['a'=>",
     "$request->validate(['a'=>['required';Validator::make($d,['b'=>'in:1,2']);"}

ControllerText(params, body) == "public function f(" \o params \o "){" \o body \o "}"

RulesOfS == "public function rules(){return ['x'=>'required|email','y.z'=>'string'];}"
RulesOfApi == "public function rules(){return ['w'=>'uuid'];}"
RulesEmpty == "public function rules(){return [];}"

\* where the class SRequest is declared in the workspace
FormRequestLayouts ==
    {<<>>,
     <<<<"/w/app/Http/Requests/SRequest.php", RulesOfS>>>>,
     <<<<"/w/app/Http/Requests/SRequest.php", RulesEmpty>>>>,
     <<<<"/w/app/Http/Requests/Api/SRequest.php", RulesOfApi>>>>,
     <<<<"/w/vendor/p/Http/Requests/SRequest.php", RulesOfS>>>>,
     <<<<"/w/app/Http/Requests/Api/SRequest.php", RulesOfApi>>,
       <<"/w/m/Http/Requests/SRequest.php", RulesOfS>>>>}

\* the layouts tried with a method that names no Form Request
PlainLayouts == {<<>>, <<<<"/w/app/Http/Requests/SRequest.php", RulesOfS>>>>}

Workspaces ==
    {<<<<ControllerFile, ControllerText("SRequest $r", body)>>>> \o layout :
        body \in MethodBodies, layout \in FormRequestLayouts}
    \cup {<<<<ControllerFile, ControllerText(params, body)>>>> \o layout :
        params \in ParamLists, body \in MethodBodies, layout \in PlainLayouts}
    \cup PlainLayouts

\* the routes of `php artisan route:list --json`, before parsing
Route(uri, controller) ==
    [method |-> "POST", uri |-> uri, controller |-> controller,
     requestParams |-> Null, formRequestClass |-> Null,
     controllerPath |-> Null, controllerMethod |-> Null]

Routes ==
    {Route("api/u", Null),
     Route("api/u", Some("App\\C@f")),
     Route("api/u/{id}/p/{q?}", Some("App\\C@f")),
     Route("api/u", Some("App\\C@g")),
     Route("api/u/{id}/p/{q?}", Some("App\\C"))}

InitRoute ==
    /\ pc = "ready"
    /\ op = "parseRoute"
    /\ input = Null
    /\ output = Null
    /\ files \in Workspaces
    /\ formRequestCache = <<>>
    /\ parsers = <<>>
    /\ calls = <<>>
    /\ routeStorage = <<>>

\* what the workspace search of parseFormRequest can give for the route
SearchResults(route) ==
    IF IsNull(route.controller)
    THEN {Null}
    ELSE UNION {IF IsNull(formRequestClass)
                THEN {Null}
                ELSE FirstFound(files, Val(formRequestClass)) :
                formRequestClass \in
                    {Only({FormRequestOf(files, info.path, info.method) :
                           info \in {parseControllerString(Val(route.controller))}})}}

\* one call of parseRoute; output keeps the route returned and the
\* validation parseControllerValidation returned to it
ParseRoute ==
    \E route \in Routes :
        \E found \in SearchResults(route) :
            \E returned \in {parseRoute(files, formRequestCache, route, found)} :
                /\ input' = Some(route)
                /\ output' = Some([route |-> returned.route,
                                   validation |-> returned.validation])
                /\ formRequestCache' = returned.cache
                /\ pc' = "done"
                /\ UNCHANGED <<op, files, parsers, calls, routeStorage>>

NextRoute == ParseRoute

SpecRoute == InitRoute /\ [][NextRoute]_vars

(***************************************************************************)
(* Properties of the choice between inline rules and a Form Request        *)
(***************************************************************************)
\* the route the last call parsed, the route it returned and the validation
\* behind it
Asked == Val(input)
Returned == Val(output).route
Validation == Val(output).validation

\* the controller file and method the asked route names
AskedInfo == parseControllerString(Val(Asked.controller))

\* the asked route names a method that is found in an existing file
MethodFound ==
    /\ ~IsNull(Asked.controller)
    /\ ExistsSync(files, AskedInfo.path)
    /\ Truthy(extractMethodContent(ReadFileSync(files, AskedInfo.path),
                                   AskedInfo.method))

MethodText == Val(extractMethodContent(ReadFileSync(files, AskedInfo.path),
                                       AskedInfo.method))

\* the Form Request class the method's parameter list names, or null
Hinted == findFormRequestInjection(ReadFileSync(files, AskedInfo.path),
                                   AskedInfo.method)

\* the method holds a recognised inline call with at least one rule and
\* names a Form Request class
BothPresent ==
    /\ MethodFound
    /\ ~IsNull(parseInlineValidation(MethodText))
    /\ ~IsNull(Hinted)

\* the files parseFormRequest can resolve the class to
Candidates(formRequestClass) ==
    IF ExistsSync(files, "/w/app/Http/Requests/" \o formRequestClass \o ".php")
    THEN {"/w/app/Http/Requests/" \o formRequestClass \o ".php"}
    ELSE FindFiles(files, formRequestClass)

Names(params) == {params[i].name : i \in 1..Len(params)}

\* C1 (as claimed): with both an inline call that has rules and a Form
\* Request type hint, the validation returned is the inline one
C1_InlineWins ==
    (Done("parseRoute") /\ BothPresent) =>
        /\ ~IsNull(Validation)
        /\ Val(Validation).source = "inline"
        /\ Val(Validation).params = Val(parseInlineValidation(MethodText)).params

\* C1 (amended): with both an inline call that has rules and a Form Request
\* type hint, the Form Request decides alone: the validation is null when
\* the class resolves to no file, and otherwise has source 'form-request',
\* names the class and one of its files, and its params are those of that
\* file's rules(), none of them an inline field
C1_FormRequestWins ==
    (Done("parseRoute") /\ BothPresent) =>
        IF Candidates(Val(Hinted)) = {}
        THEN IsNull(Validation)
        ELSE /\ ~IsNull(Validation)
             /\ Val(Validation).source = "form-request"
             /\ Val(Validation).formRequestClass = Hinted
             /\ ~IsNull(Val(Validation).formRequestPath)
             /\ Val(Val(Validation).formRequestPath) \in Candidates(Val(Hinted))
             /\ Val(Validation).params =
                    parseValidationRules(extractRulesFromFormRequest(
                        ReadFileSync(files, Val(Val(Validation).formRequestPath))))
             /\ Names(Val(Validation).params)
                    \cap Names(Val(parseInlineValidation(MethodText)).params) = {}

\* both are present and the Form Request's rules were returned
C1_Witness ==
    /\ Done("parseRoute")
    /\ BothPresent
    /\ ~IsNull(Validation)
    /\ Val(Validation).source = "form-request"
    /\ Len(Val(Validation).params) > 0

\* the fields the inline arrays of MethodBodies declare, and the fields the
\* rules() methods of FormRequestLayouts declare
InlineFields == {"a", "b", "c"}
FormRequestFields == {"x", "y", "w"}

\* C2: every parsed route has exactly one of three outcomes: no validation
\* (requestParams are the path params), inline rules (no formRequestClass,
\* no formRequestPath, inline fields only) or Form Request rules (class and
\* path of an existing file, Form Request fields only); requestParams are
\* the path params followed by the params of the outcome
C2_OneSourcePerRoute ==
    Done("parseRoute") =>
        LET pathParams == extractPathParams(Asked.uri)
            outcomes ==
                {k \in {"none", "inline", "form-request"} :
                    IF k = "none"
                    THEN /\ IsNull(Validation)
                         /\ Returned.requestParams = Some(pathParams)
                         /\ IsNull(Returned.formRequestClass)
                    ELSE /\ ~IsNull(Validation)
                         /\ Val(Validation).source = k
                         /\ Returned.requestParams =
                                Some(pathParams \o Val(Validation).params)
                         /\ Returned.formRequestClass = Val(Validation).formRequestClass
                         /\ IF k = "inline"
                            THEN /\ IsNull(Val(Validation).formRequestClass)
                                 /\ IsNull(Val(Validation).formRequestPath)
                                 /\ Names(Val(Validation).params) \subseteq InlineFields
                            ELSE /\ ~IsNull(Val(Validation).formRequestClass)
                                 /\ ~IsNull(Val(Validation).formRequestPath)
                                 /\ ExistsSync(files,
                                               Val(Val(Validation).formRequestPath))
                                 /\ Names(Val(Validation).params)
                                        \subseteq FormRequestFields}
        IN  /\ Cardinality(outcomes) = 1
            /\ \A i \in 1..Len(pathParams) : pathParams[i].isPathParam

\* a route with path params took its rules from a Form Request although its
\* method holds inline rules too
C2_Witness ==
    /\ Done("parseRoute")
    /\ BothPresent
    /\ Len(extractPathParams(Asked.uri)) > 0
    /\ ~IsNull(Validation)
    /\ Names(Val(Validation).params) # {}
    /\ Names(Val(Validation).params) \subseteq FormRequestFields

\* the recognised inline calls of the method: the index of the opening
\* bracket of each one's rules array
ArrayStarts ==
    {Val(Exec(validationStarts[n], MethodText, 0)).end - 1 :
        n \in {k \in 1..Len(validationStarts) :
                  ~IsNull(Exec(validationStarts[k], MethodText, 0))}}

\* the rules array opened at index i is never closed
TruncatedAt(i) == Closers(MethodText, i) = {}

\* the method holds an inline call whose rules array is truncated
Truncated == MethodFound /\ \E i \in ArrayStarts : TruncatedAt(i)

\* C6 (as claimed): a truncated rules array in an inline call leaves the
\* route without validation: requestParams are the path params alone
C6_TruncatedYieldsNone ==
    (Done("parseRoute") /\ Truncated) =>
        /\ IsNull(Validation)
        /\ Returned.requestParams = Some(extractPathParams(Asked.uri))

\* C6 (amended): when every recognised inline call of the method has a
\* truncated rules array and the method names no Form Request class, the
\* route is returned without validation: requestParams are the path params
\* alone
C6_OnlyTruncatedYieldsNone ==
    (/\ Done("parseRoute")
     /\ Truncated
     /\ \A i \in ArrayStarts : TruncatedAt(i)
     /\ IsNull(Hinted)) =>
        /\ IsNull(Validation)
        /\ Returned.requestParams = Some(extractPathParams(Asked.uri))

\* a route with path params whose only inline call breaks off inside its
\* rules array was parsed
C6_Witness ==
    /\ Done("parseRoute")
    /\ Truncated
    /\ \A i \in ArrayStarts : TruncatedAt(i)
    /\ IsNull(Hinted)
    /\ Len(extractPathParams(Asked.uri)) > 0
    /\ Returned.requestParams = Some(extractPathParams(Asked.uri))

(***************************************************************************)
(* SpecBuild: the schema builder applied once: createParam to a rule list, *)
(* parseValidationRules to a rule mapping and extractPathParams to a URI   *)
(***************************************************************************)
MaxBuildRules == 2   \* most rules in a generated rule list of one field
MaxKeys == 3         \* most entries written into a generated rule mapping
MaxSegments == 3     \* most segments in a generated URI

\* 'in:' rules, each with its candidates
InTokens ==
    {<<"in:draft,published", <<"draft", "published">>>>,
     <<"in:integer,file", <<"integer", "file">>>>,
     <<"in:a, b", <<"a", "b">>>>,
     <<"in:1", <<"1">>>>}

\* the other rules of the generated lists, each with its rule name
PlainTokens ==
    {<<"required", "required">>, <<"string", "string">>, <<"integer", "integer">>,
     <<"numeric", "numeric">>, <<"boolean", "boolean">>, <<"array", "array">>,
     <<"file", "file">>, <<"email", "email">>, <<"max:255", "max">>}

BuildTokens == PlainTokens \cup {<<t[1], "in">> : t \in InTokens}

RuleListInputs ==
    {[name |-> "status", rules |-> TokenTexts(t), tokens |-> t] :
        t \in {<<>>} \cup Tuples(BuildTokens, MaxBuildRules)}

\* the entries of the generated array literals: a key with its rules
SourceEntries ==
    {<<"items", <<"required">>>>, <<"items", <<"required", "array">>>>,
     <<"items.*.name", <<"required", "string">>>>, <<"items.*", <<"integer">>>>,
     <<"a.b", <<"string">>>>, <<"a.b.c", <<"required">>>>,
     <<"b", <<"required">>>>, <<"1", <<"string">>>>}

RECURSIVE FromEntries(_)
\* the object parseRulesArray builds when it reads the entries in this order
FromEntries(source) ==
    IF Len(source) = 0
    THEN <<>>
    ELSE LET last == source[Len(source)]
         IN  ObjSet(FromEntries(SubSeq(source, 1, Len(source) - 1)), last[1], last[2])

MappingInputs ==
    {[source |-> s, rules |-> FromEntries(s)] : s \in Tuples(SourceEntries, MaxKeys)}

\* URI segments: text, and for a placeholder its name and whether it is
\* optional
Segments ==
    {<<"api", Null>>, <<"users", Null>>, <<"{}", Null>>, <<"{a-b}", Null>>,
     <<"{user}", Some(<<"user", FALSE>>)>>, <<"{post?}", Some(<<"post", TRUE>>)>>,
     <<"{id}", Some(<<"id", FALSE>>)>>, <<"{user?}", Some(<<"user", TRUE>>)>>}

RECURSIVE UriOf(_)
UriOf(segments) ==
    IF Len(segments) = 0 THEN "" ELSE "/" \o Head(segments)[1] \o UriOf(Tail(segments))

\* the segments of '/api/users/{user}/posts/{post?}'
ExampleSegments ==
    <<<<"api", Null>>, <<"users", Null>>, <<"{user}", Some(<<"user", FALSE>>)>>,
      <<"posts", Null>>, <<"{post?}", Some(<<"post", TRUE>>)>>>>

UriInputs ==
    {[uri |-> UriOf(s), segments |-> s] :
        s \in {<<>>, ExampleSegments} \cup Tuples(Segments, MaxSegments)}

BuildInputs(o) ==
    IF o = "createParam" THEN RuleListInputs
    ELSE IF o = "parseValidationRules" THEN MappingInputs
    ELSE UriInputs

BuildOps == {"createParam", "parseValidationRules", "extractPathParams"}

InitBuild ==
    /\ pc = "ready"
    /\ op \in BuildOps
    /\ input \in BuildInputs(op)
    /\ output = Null
    /\ files = <<>>
    /\ formRequestCache = <<>>
    /\ parsers = <<>>
    /\ calls = <<>>
    /\ routeStorage = <<>>

CreateParam ==
    /\ pc = "ready"
    /\ op = "createParam"
    /\ output' = Some(createParam(input.name, input.rules))
    /\ pc' = "done"
    /\ UNCHANGED <<op, input, world>>

ParseValidationRules ==
    /\ pc = "ready"
    /\ op = "parseValidationRules"
    /\ output' = Some(parseValidationRules(input.rules))
    /\ pc' = "done"
    /\ UNCHANGED <<op, input, world>>

ExtractPathParams ==
    /\ pc = "ready"
    /\ op = "extractPathParams"
    /\ output' = Some(extractPathParams(input.uri))
    /\ pc' = "done"
    /\ UNCHANGED <<op, input, world>>

NextBuild ==
    \/ CreateParam
    \/ ParseValidationRules
    \/ ExtractPathParams

SpecBuild == InitBuild /\ [][NextBuild]_vars

(***************************************************************************)
(* Properties of the schema builder (SpecBuild)                            *)
(***************************************************************************)
\* the candidates declared with an 'in:' rule
CandidatesOf(rule) == (CHOOSE t \in InTokens : t[1] = rule)[2]

\* the positions of the 'in:' rules in the input of createParam
InRules == {i \in 1..Len(input.tokens) : input.tokens[i][2] = "in"}

\* C11: an 'in:' rule gives the node its enum values, the comma-separated
\* candidates of the (first) 'in:' rule in order, and has no part in the
\* type: the type is the one the other rules of the list give, wherever the
\* 'in:' rule stands; the only rule 'in:draft,published' gives a string
\* with the enum values draft, published.
C11_InRuleGivesEnumOnly ==
    Done("createParam")
        => LET param == Val(output)
               n == Len(input.rules)
               others == {input.tokens[i][2] : i \in (1..n) \ InRules}
           IN  /\ param.type = TypeByPrecedence(CodeOrder, others)
               /\ \A i \in InRules :
                    param.type = inferTypeFromRules(Without(input.rules, i))
               /\ param.enumValues =
                    IF InRules = {}
                    THEN Null
                    ELSE Some(CandidatesOf(input.rules[SetMin(InRules)]))
               /\ input.rules = <<"in:draft,published">>
                    => /\ param.type = "string"
                       /\ param.enumValues = Some(<<"draft", "published">>)

\* C11 witness: the only rule 'in:draft,published' has given a string node
\* with the two enum values
C11_Witness ==
    /\ Done("createParam")
    /\ input.rules = <<"in:draft,published">>
    /\ Val(output).type = "string"
    /\ Val(output).enumValues = Some(<<"draft", "published">>)

(***************************************************************************)
(* SpecInline: parseInlineValidation applied once to a method body of one  *)
(* or two validation calls                                                 *)
(***************************************************************************)
\* the text of a call of each shape of validationStarts, up to its array
CallStarts ==
    <<"$request->validate(", "$this->validate($request, ", "Validator::make($d, ",
      "request()->validate(", "Request::validate(",
      "$request->validateWithBag('b', ", "Validator::validate($d, ">>

\* the array argument of a call: with a rule for the field, empty, without
\* a rule, or without its closing bracket
ArrayKinds == {"rules", "empty", "norules", "unmatched"}

ArrayText(kind, field) ==
    IF kind = "rules" THEN "['" \o field \o "' => 'required']"
    ELSE IF kind = "empty" THEN "[]"
    ELSE IF kind = "norules" THEN "['" \o field \o "']"
    ELSE "['" \o field \o "' => 'required'"

Calls == {[shape |-> k, kind |-> a] : k \in 1..Len(CallStarts), a \in ArrayKinds}

CallLists == {<<c>> : c \in Calls} \cup {<<c, d>> : c \in Calls, d \in Calls}

\* the field the call at position i validates
FieldAt(i) == <<"a", "b">>[i]

RECURSIVE BodyFrom(_, _)
\* the statements of the method body from call i on
BodyFrom(list, i) ==
    IF i > Len(list)
    THEN ""
    ELSE CallStarts[list[i].shape] \o ArrayText(list[i].kind, FieldAt(i)) \o "); "
            \o BodyFrom(list, i + 1)

BodyInputs == {[calls |-> c, text |-> BodyFrom(c, 1)] : c \in CallLists}

InitInline ==
    /\ pc = "ready"
    /\ op = "parseInlineValidation"
    /\ input \in BodyInputs
    /\ output = Null
    /\ files = <<>>
    /\ formRequestCache = <<>>
    /\ parsers = <<>>
    /\ calls = <<>>
    /\ routeStorage = <<>>

ParseInlineValidation ==
    /\ pc = "ready"
    /\ op = "parseInlineValidation"
    /\ output' = parseInlineValidation(input.text)
    /\ pc' = "done"
    /\ UNCHANGED <<op, input, world>>

NextInline == ParseInlineValidation

SpecInline == InitInline /\ [][NextInline]_vars

(***************************************************************************)
(* Properties of parseInlineValidation (SpecInline)                        *)
(***************************************************************************)
\* the shapes that have a call in the body
ShapesPresent == {input.calls[i].shape : i \in 1..Len(input.calls)}

\* the position of the leftmost call of the shape
Leftmost(shape) == SetMin({i \in 1..Len(input.calls) : input.calls[i].shape = shape})

\* the shapes whose leftmost call has a closed array with a rule in it
ShapesWithRules == {k \in ShapesPresent : input.calls[Leftmost(k)].kind = "rules"}

\* the fields of the result, none when the result is null
FieldsOf(result) ==
    IF IsNull(result)
    THEN <<>>
    ELSE [i \in 1..Len(Val(result).params) |-> Val(result).params[i].name]

\* C12 as stated: the first shape in list order that has a call in the body
\* decides: the result holds the rules of that call, and is null when the
\* array of that call is unmatched or yields no rules.
C12_FirstMatchDecides ==
    Done("parseInlineValidation")
        => LET first == SetMin(ShapesPresent)
           IN  FieldsOf(output) =
                    IF first \in ShapesWithRules
                    THEN <<FieldAt(Leftmost(first))>>
                    ELSE <<>>

\* C12 amended: the shapes are tried in list order, each on its leftmost
\* call in the body; the first shape whose call has a matched array that
\* yields at least one rule decides, and the result is null only when no
\* shape has such a call.
C12_FirstMatchWithRulesDecides ==
    Done("parseInlineValidation")
        => /\ IsNull(output) <=> ShapesWithRules = {}
           /\ FieldsOf(output) =
                    IF ShapesWithRules = {}
                    THEN <<>>
                    ELSE <<FieldAt(Leftmost(SetMin(ShapesWithRules)))>>

\* C12 witness: Validator::make with an empty array before a
\* request()->validate call with rules has given the rules of the latter
C12_Witness ==
    /\ Done("parseInlineValidation")
    /\ input.calls = <<[shape |-> 3, kind |-> "empty"], [shape |-> 4, kind |-> "rules"]>>
    /\ FieldsOf(output) = <<"b">>

\* the tree parseValidationRules has returned
Tree == Val(output)

\* the children of a node, none when it has no children list
ChildrenOf(node) == IF IsNull(node.children) THEN <<>> ELSE Val(node.children)

\* C13: the mapping {"items.*.name": ["required","string"]} gives exactly
\* one root node, 'items' of type array, whose children list holds exactly
\* one node, 'name' of type string with required = true.
C13_WildcardRoundTrip ==
    (Done("parseValidationRules")
        /\ input.rules = << <<"items.*.name", <<"required", "string">>>> >>)
        => /\ Len(Tree) = 1
           /\ Tree[1].name = "items"
           /\ Tree[1].type = "array"
           /\ ~IsNull(Tree[1].children)
           /\ Len(ChildrenOf(Tree[1])) = 1
           /\ ChildrenOf(Tree[1])[1].name = "name"
           /\ ChildrenOf(Tree[1])[1].type = "string"
           /\ ChildrenOf(Tree[1])[1].required = TRUE
           /\ IsNull(ChildrenOf(Tree[1])[1].children)

\* C13 witness: the tree of that mapping has been built, with 'items' as
\* its root
C13_Witness ==
    /\ Done("parseValidationRules")
    /\ input.source = << <<"items.*.name", <<"required", "string">>>> >>
    /\ Len(Tree) = 1
    /\ Tree[1].name = "items"
    /\ Len(ChildrenOf(Tree[1])) = 1

HasDot(s) == \E i \in 0..(Len(s) - 1) : CharAt(s, i) = "."

\* the nodes of the tree: the roots and the nodes of their children lists
TreeNodes ==
    {Tree[i] : i \in 1..Len(Tree)}
        \cup UNION {{ChildrenOf(Tree[i])[j] : j \in 1..Len(ChildrenOf(Tree[i]))} :
                    i \in 1..Len(Tree)}

\* the first root of that name
RootNamed(name) == Tree[IndexOfName(Tree, name)]

\* C14: a dotted key recurses on the remainder: 'a.b' makes 'a' an object
\* node with a child 'b', 'a.b.c' makes 'a' an object containing the object
\* 'b' containing 'c', and no node of the tree has a dot in its name.
C14_DottedKeysRecurse ==
    Done("parseValidationRules")
        => /\ \A node \in TreeNodes : ~HasDot(node.name)
           /\ ObjHas(input.rules, "a.b")
                => /\ RootNamed("a").type = "object"
                   /\ \E j \in 1..Len(ChildrenOf(RootNamed("a"))) :
                        ChildrenOf(RootNamed("a"))[j].name = "b"
           /\ ObjHas(input.rules, "a.b.c")
                => /\ RootNamed("a").type = "object"
                   /\ \E j \in 1..Len(ChildrenOf(RootNamed("a"))) :
                        LET b == ChildrenOf(RootNamed("a"))[j]
                        IN  /\ b.name = "b"
                            /\ b.type = "object"
                            /\ \E k \in 1..Len(ChildrenOf(b)) : ChildrenOf(b)[k].name = "c"

\* C15: in every tree the parser produces, from rule keys in any order or
\* from a URI, a node that has children has type array or object, and a
\* path-parameter node has no children and has type string.
C15_ChildrenOnlyUnderArrayOrObject ==
    (Done("parseValidationRules") \/ Done("extractPathParams"))
        => \A node \in TreeNodes :
            /\ Len(ChildrenOf(node)) > 0 => node.type \in {"array", "object"}
            /\ node.isPathParam => ChildrenOf(node) = <<>> /\ node.type = "string"

RECURSIVE FirstOccurrences(_)
\* the sequence without the later repetitions of an element
FirstOccurrences(seq) ==
    IF Len(seq) = 0
    THEN <<>>
    ELSE LET front == FirstOccurrences(SubSeq(seq, 1, Len(seq) - 1))
             last == seq[Len(seq)]
         IN  IF Includes(front, last) THEN front ELSE Append(front, last)

\* the root name of a rule key: the text before its first dot
RootOf(key) == Split(key, ".")[1]

\* C16: the root nodes of parseValidationRules stand in the order in which
\* their root names first occur among the keys of the source rule mapping,
\* for plain, dotted and wildcard keys.
C16_RootsInSourceOrder ==
    Done("parseValidationRules")
        => FirstOccurrences([i \in 1..Len(Tree) |-> Tree[i].name])
            = FirstOccurrences([i \in 1..Len(input.source) |-> RootOf(input.source[i][1])])

\* C29: parseValidationRules never returns two root nodes of the same name,
\* in whatever order the keys are declared: a plain key and the dotted or
\* wildcard keys under it end up in one root node.
C29_RootNamesDistinct ==
    Done("parseValidationRules")
        => \A i, j \in 1..Len(Tree) : Tree[i].name = Tree[j].name => i = j

RECURSIVE Placeholders(_)
\* the placeholders among the segments, in order: <<name, optional>>
Placeholders(segments) ==
    IF Len(segments) = 0
    THEN <<>>
    ELSE (IF IsNull(Head(segments)[2]) THEN <<>> ELSE <<Val(Head(segments)[2])>>)
            \o Placeholders(Tail(segments))

\* C20: extractPathParams depends on the URI only and changes nothing: it
\* returns one node for each {name} or {name?} placeholder, in the order of
\* the template, of type string, with isPathParam = true, no rules, no
\* children, and required exactly when the placeholder has no '?';
\* '/api/users/{user}/posts/{post?}' gives user (required), post (optional).
C20_PathParamsFromTemplate ==
    Done("extractPathParams")
        => LET expected == Placeholders(input.segments)
           IN  /\ Len(Tree) = Len(expected)
               /\ \A i \in 1..Len(Tree) :
                    /\ Tree[i].name = expected[i][1]
                    /\ Tree[i].required = ~expected[i][2]
                    /\ Tree[i].type = "string"
                    /\ Tree[i].isPathParam = TRUE
                    /\ Tree[i].rules = <<>>
                    /\ IsNull(Tree[i].children)
               /\ output = Some(extractPathParams(UriOf(input.segments)))
               /\ files = <<>> /\ formRequestCache = <<>>
               /\ input.uri = "/api/users/{user}/posts/{post?}"
                    => /\ [i \in 1..Len(Tree) |-> Tree[i].name] = <<"user", "post">>
                       /\ [i \in 1..Len(Tree) |-> Tree[i].required] = <<TRUE, FALSE>>

\* C20 witness: '/api/users/{user}/posts/{post?}' has given user, required,
\* then post, not required
C20_Witness ==
    /\ Done("extractPathParams")
    /\ input.uri = "/api/users/{user}/posts/{post?}"
    /\ [i \in 1..Len(Tree) |-> <<Tree[i].name, Tree[i].required>>]
            = <<<<"user", TRUE>>, <<"post", FALSE>>>>

(***************************************************************************)
(* SpecCache: parsers are constructed, each is asked to parse the routes   *)
(* of the list in turn without waiting for the call before, the workspace  *)
(* searches resolve in any order, and a Form Request file is saved in the  *)
(* workspace meanwhile.  Every route names a controller method that        *)
(* injects SRequest.                                                       *)
(***************************************************************************)
MaxParsers == 2   \* most RouteParser instances constructed
MaxCalls == 2     \* most parseRoute calls made

InjectingController == <<ControllerFile, ControllerText("SRequest $r", "")>>
RulesOfDirect == "public function rules(){return ['x'=>'email'];}"

DirectFile == <<"/w/app/Http/Requests/SRequest.php", RulesOfDirect>>
ApiFile == <<"/w/app/Http/Requests/Api/SRequest.php", RulesOfApi>>
ModuleFile == <<"/w/m/Http/Requests/SRequest.php", RulesOfDirect>>

\* the workspace before the first parser is constructed
CacheWorkspaces ==
    {<<InjectingController>>, <<InjectingController, ApiFile, ModuleFile>>}

\* the files that can be saved in the workspace later
AddableFiles == {DirectFile}

\* the routes of the list, in the order in which a parser is given them
CacheRoutes ==
    <<Route("api/u", Some("App\\C@f")), Route("api/u/{id}", Some("App\\C@f")),
      Route("api/u/{id}/p", Some("App\\C@f")), Route("api/u/{id}/p/{q?}", Some("App\\C@f"))>>

InitCache ==
    /\ pc = "ready"
    /\ op = "parseRoute"
    /\ input = Null
    /\ output = Null
    /\ files \in CacheWorkspaces
    /\ formRequestCache = <<>>
    /\ parsers = <<>>
    /\ calls = <<>>
    /\ routeStorage = <<>>

\* the calls made on parser p
CallsOn(p) == {c \in 1..Len(calls) : calls[c].parser = p}

\* the calls whose Form Request resolution is over
Resolved == {c \in 1..Len(calls) : calls[c].state = "done"}

\* createRouteParser(): a new RouteParser for the workspace; the parser
\* created before it has been given its first route by then
CreateRouteParser ==
    /\ Len(parsers) < MaxParsers
    /\ \A p \in 1..Len(parsers) : CallsOn(p) # {}
    /\ parsers' = Append(parsers, NewFormRequestCache)
    /\ UNCHANGED <<pc, op, input, output, files, formRequestCache, calls, routeStorage>>

\* a Form Request file is saved in the workspace
AddFile ==
    \E file \in AddableFiles :
        /\ ~ExistsSync(files, file[1])
        /\ files' = Append(files, file)
        /\ UNCHANGED <<pc, op, input, output, formRequestCache, parsers, calls, routeStorage>>

\* parseRoute is called on a parser for its next route and runs up to the
\* await of the workspace search, or to its return when it does not search
StartParseRoute ==
    /\ Len(calls) < MaxCalls
    /\ \E p \in 1..Len(parsers) :
        /\ Cardinality(CallsOn(p)) < Len(CacheRoutes)
        /\ \E route \in {CacheRoutes[Cardinality(CallsOn(p)) + 1]} :
            \E begun \in {parseRouteBeforeSearch(files, parsers[p], route)} :
                /\ calls' = Append(calls,
                        [parser |-> p, route |-> route, class |-> begun.class,
                         state |-> IF begun.state = "searching" THEN "searching" ELSE "done",
                         validation |-> begun.result,
                         ops |-> begun.ops, started |-> Len(files), after |-> Resolved,
                         returned |-> IF begun.state = "searching"
                                      THEN Null
                                      ELSE Some(parseRouteReturn(route, begun.result))])
                /\ parsers' = [parsers EXCEPT ![p] = begun.cache]
    /\ UNCHANGED <<pc, op, input, output, files, formRequestCache, routeStorage>>

\* the workspace search of a call resolves: it saw the workspace as it was
\* at some moment since the call began; parseFormRequest runs on and
\* parseRoute returns the route
FindFilesResolves ==
    \E c \in 1..Len(calls) :
        /\ calls[c].state = "searching"
        /\ \E seen \in calls[c].started..Len(files) :
            \E found \in FirstFound(SubSeq(files, 1, seen), Val(calls[c].class)) :
                \E after \in {parseFormRequestAfterSearch(
                                  files, parsers[calls[c].parser],
                                  Val(calls[c].class), found)} :
                    /\ calls' = [calls EXCEPT ![c] =
                            [@ EXCEPT !.state = "done",
                                      !.validation = after.result,
                                      !.ops = @ \o after.ops,
                                      !.returned = Some(parseRouteReturn(calls[c].route,
                                                                         after.result))]]
                    /\ parsers' = [parsers EXCEPT ![calls[c].parser] = after.cache]
        /\ UNCHANGED <<pc, op, input, output, files, formRequestCache, routeStorage>>

NextCache ==
    \/ CreateRouteParser
    \/ AddFile
    \/ StartParseRoute
    \/ FindFilesResolves

SpecCache == InitCache /\ [][NextCache]_vars

(***************************************************************************)
(* Properties of the Form Request cache (SpecCache)                        *)
(***************************************************************************)
\* the file-system operations parseFormRequest performed in call c
FormRequestOps(c) ==
    {i \in 1..Len(calls[c].ops) : calls[c].ops[i].by = "parseFormRequest"}

\* both calls resolve the same class on the same parser
SameTarget(c, d) ==
    /\ calls[c].parser = calls[d].parser
    /\ ~IsNull(calls[c].class)
    /\ calls[c].class = calls[d].class

\* the calls on the parser of d for the class of d that were over when d began
ResolvedBefore(d) == {c \in calls[d].after : SameTarget(c, d)}

\* the workspace as it was when call c began
FilesAtStart(c) == SubSeq(files, 1, calls[c].started)

\* C17: on one parser, a call that resolves a class after an earlier
\* resolution of that class has completed performs no existence check, no
\* file read and no workspace search for it and returns without waiting
\* what the cache holds, the result of a completed call - also when that
\* result is null because the class was not found.
C17_SecondResolutionFromCache ==
    \A d \in 1..Len(calls) :
        ResolvedBefore(d) # {}
            => /\ FormRequestOps(d) = {}
               /\ calls[d].state = "done"
               /\ calls[d].validation \in {calls[c].validation : c \in ResolvedBefore(d)}
               /\ (\A c \in ResolvedBefore(d) : IsNull(calls[c].validation))
                    => IsNull(calls[d].validation)

\* C17 witness: a class was looked up and not found; the second call for it
\* on the same parser began after the file had been saved, did no
\* file-system work for the class and returned null
C17_Witness ==
    \E c, d \in 1..Len(calls) :
        /\ c \in ResolvedBefore(d)
        /\ FormRequestOps(c) # {}
        /\ IsNull(calls[c].validation)
        /\ ExistsSync(FilesAtStart(d), DirectFile[1])
        /\ FormRequestOps(d) = {}
        /\ calls[d].state = "done"
        /\ IsNull(calls[d].validation)

\* the class has a file in the workspace that parseFormRequest can find
HasFormRequestFile(fs, formRequestClass) ==
    ExistsSync(fs, DirectPath(formRequestClass)) \/ FindFiles(fs, formRequestClass) # {}

\* C18: every RouteParser starts with an empty cache and no cache is shared:
\* a parser that has been given no route has an empty cache, every entry of
\* a cache is the result of a completed call on that same parser, and the
\* first call for a class on a parser looks the class up in the workspace
\* whatever other parsers have cached, so that it finds a Form Request file
\* that was in the workspace when it began - also one saved after another
\* parser cached the class as not found.
C18_FreshParserFreshCache ==
    /\ \A p \in 1..Len(parsers) : CallsOn(p) = {} => parsers[p] = <<>>
    /\ \A p \in 1..Len(parsers) : \A i \in 1..Len(parsers[p]) :
            \E c \in CallsOn(p) \cap Resolved :
                /\ calls[c].class = Some(parsers[p][i][1])
                /\ calls[c].validation = parsers[p][i][2]
    /\ \A d \in 1..Len(calls) :
            (/\ ~IsNull(calls[d].class)
             /\ \A c \in 1..(d - 1) : ~SameTarget(c, d))
                => /\ FormRequestOps(d) # {}
                   /\ (calls[d].state = "done"
                         /\ HasFormRequestFile(FilesAtStart(d), Val(calls[d].class)))
                        => ~IsNull(calls[d].validation)

\* C18 witness: the first parser has cached SRequest as not found, the file
\* was saved, and a call on the second parser has returned the rules of the
\* saved file
C18_Witness ==
    /\ Len(parsers) = 2
    /\ ObjHas(parsers[1], "SRequest")
    /\ IsNull(ObjGet(parsers[1], "SRequest"))
    /\ \E d \in CallsOn(2) :
        /\ calls[d].state = "done"
        /\ ~IsNull(calls[d].validation)
        /\ Val(calls[d].validation).formRequestPath = Some(DirectFile[1])

\* the calls that resolve the class of call c on the parser of call c
TargetGroup(c) == {e \in 1..Len(calls) : SameTarget(c, e)}

\* no file has been saved since call c began
WorkspaceUnchangedSince(c) == calls[c].started = Len(files)

\* C19: calls that resolve the same class on one parser, in any
\* interleaving and with the workspace left unchanged while they run,
\* return the same validation, and once they are all over the cache holds
\* one entry for the class, equal to that validation.
C19_ConcurrentCallsAgree ==
    \A c \in 1..Len(calls) :
        (\A e \in TargetGroup(c) : WorkspaceUnchangedSince(e))
            => /\ \A d, e \in TargetGroup(c) \cap Resolved :
                    calls[d].validation = calls[e].validation
               /\ (TargetGroup(c) # {} /\ TargetGroup(c) \subseteq Resolved)
                    => LET cache == parsers[calls[c].parser]
                           class == Val(calls[c].class)
                       IN  /\ Cardinality({i \in 1..Len(cache) : cache[i][1] = class}) = 1
                           /\ ObjGet(cache, class) = calls[c].validation

(***************************************************************************)
(* SpecOrder: parseRoute on a route whose rules are declared, in a chosen  *)
(* order, in an inline call or in the rules() of a Form Request            *)
(***************************************************************************)
MaxDeclared == 2     \* most fields declared in a generated rules array

\* the field names declared
DeclaredKeys == {"a", "b", "1"}

\* the declarations: each a sequence of distinct field names
DeclaredLists ==
    UNION {{list \in [1..n -> DeclaredKeys] :
               \A i, j \in 1..n : i # j => list[i] # list[j]} :
           n \in 0..MaxDeclared}

\* the PHP text of the entries of a rules array
RulesArrayText(list) ==
    IF Len(list) = 0
    THEN ""
    ELSE Join([i \in 1..Len(list) |-> "'" \o list[i] \o "'=>'string'"], ",")

\* where the rules of the route are declared
DeclarationKinds == {"none", "inline", "form-request"}

\* the workspace that declares the fields of list in the given place
OrderWorkspace(kind, list) ==
    IF kind = "inline"
    THEN <<<<ControllerFile,
             ControllerText("", "$request->validate([" \o RulesArrayText(list) \o "]);")>>>>
    ELSE IF kind = "form-request"
    THEN <<<<ControllerFile, ControllerText("SRequest $r", "")>>,
           <<"/w/app/Http/Requests/SRequest.php",
             "public function rules(){return [" \o RulesArrayText(list) \o "];}">>>>
    ELSE <<>>

OrderUris == {"api/u", "api/{id}", "api/{id}/{q?}"}

OrderInputs ==
    {[kind |-> kind, declared |-> list, route |-> Route(uri, Some("App\\C@f"))] :
        kind \in DeclarationKinds \ {"none"}, list \in DeclaredLists, uri \in OrderUris}
    \cup {[kind |-> "none", declared |-> <<>>, route |-> Route(uri, controller)] :
        uri \in OrderUris, controller \in {Null, Some("App\\C@f")}}

InitOrder ==
    /\ pc = "ready"
    /\ op = "parseRoute"
    /\ input \in OrderInputs
    /\ output = Null
    /\ files = OrderWorkspace(input.kind, input.declared)
    /\ formRequestCache = <<>>
    /\ parsers = <<>>
    /\ calls = <<>>
    /\ routeStorage = <<>>

\* one call of parseRoute on the route of the input; the class SRequest is
\* found at its direct path, so that no workspace search is made
ParseDeclaredRoute ==
    /\ pc = "ready"
    /\ \E returned \in {parseRoute(files, formRequestCache, input.route, Null)} :
        /\ output' = Some(returned.route)
        /\ formRequestCache' = returned.cache
    /\ pc' = "done"
    /\ UNCHANGED <<op, input, files, parsers, calls, routeStorage>>

NextOrder == ParseDeclaredRoute

SpecOrder == InitOrder /\ [][NextOrder]_vars

\* the requestParams of the returned route, and those among them that are
\* no path parameters
RequestParams == Val(Val(output).requestParams)
RuleDerived == SelectSeq(RequestParams, LAMBDA p : ~p.isPathParam)

\* C21: requestParams is set for every parsed route; it is the path
\* parameters of the URI template in template order followed by the
\* rule-derived parameters in the order in which the rules declare them, and
\* no rule-derived parameter stands before a path parameter
C21_PathParamsThenDeclared ==
    (pc = "done") =>
        /\ ~IsNull(Val(output).requestParams)
        /\ \E n \in 0..Len(RequestParams) :
            /\ SubSeq(RequestParams, 1, n) = extractPathParams(input.route.uri)
            /\ \A i \in 1..Len(RequestParams) : RequestParams[i].isPathParam <=> i <= n
        /\ [i \in 1..Len(RuleDerived) |-> RuleDerived[i].name] = input.declared

(***************************************************************************)
(* Default synthesis: getDefaultValueForType and getDefaultForParamType of *)
(* the request builder.  A JavaScript value is a pair of its type and its  *)
(* content; an object is the list of its entries.                          *)
(***************************************************************************)
JsString(s) == <<"string", s>>
JsNumber(n) == <<"number", n>>
JsBoolean(b) == <<"boolean", b>>
JsNull == <<"null", <<>>>>
JsArray(elements) == <<"array", elements>>
JsObject(entries) == <<"object", entries>>

\* param.defaultValue: null here when the field is undefined
DefaultValueOf(param) ==
    IF "defaultValue" \in DOMAIN param THEN param.defaultValue ELSE Null

\* getDefaultForParamType(type); today is the date the clock gives
getDefaultForParamType(type, today) ==
    CASE type = "integer" -> JsNumber(1)
      [] type = "number" -> JsNumber(1)
      [] type = "boolean" -> JsBoolean(TRUE)
      [] type = "array" -> JsArray(<<>>)
      [] type = "object" -> JsObject(<<>>)
      [] type = "date" -> JsString(today)
      [] type = "email" -> JsString("user@example.com")
      [] type = "url" -> JsString("https://example.com")
      [] type = "uuid" -> JsString("550e8400-e29b-41d4-a716-446655440000")
      [] type = "file" -> JsNull
      [] OTHER -> JsString("string")

\* getDefaultValueForType with the children branch tried before the explicit
\* default
RECURSIVE getDefaultValueForTypeChildrenFirst(_, _)
getDefaultValueForTypeChildrenFirst(param, today) ==
    IF ~IsNull(param.enumValues) /\ Len(Val(param.enumValues)) > 0
    THEN JsString(Val(param.enumValues)[1])
    ELSE IF ~IsNull(param.children) /\ Len(Val(param.children)) > 0
    THEN LET children == Val(param.children)
             obj[n \in 0..Len(children)] ==
                 IF n = 0
                 THEN <<>>
                 ELSE ObjSet(obj[n - 1], children[n].name,
                             getDefaultValueForTypeChildrenFirst(children[n], today))
         IN  IF param.type = "array"
             THEN JsArray(<<JsObject(obj[Len(children)])>>)
             ELSE JsObject(obj[Len(children)])
    ELSE IF ~IsNull(DefaultValueOf(param))
    THEN Val(DefaultValueOf(param))
    ELSE getDefaultForParamType(param.type, today)

\* getDefaultValueForType with the explicit default tried before the enum
\* values
RECURSIVE getDefaultValueForTypeDefaultFirst(_, _)
getDefaultValueForTypeDefaultFirst(param, today) ==
    IF ~IsNull(DefaultValueOf(param))
    THEN Val(DefaultValueOf(param))
    ELSE IF ~IsNull(param.enumValues) /\ Len(Val(param.enumValues)) > 0
    THEN JsString(Val(param.enumValues)[1])
    ELSE IF ~IsNull(param.children) /\ Len(Val(param.children)) > 0
    THEN LET children == Val(param.children)
             obj[n \in 0..Len(children)] ==
                 IF n = 0
                 THEN <<>>
                 ELSE ObjSet(obj[n - 1], children[n].name,
                             getDefaultValueForTypeDefaultFirst(children[n], today))
         IN  IF param.type = "array"
             THEN JsArray(<<JsObject(obj[Len(children)])>>)
             ELSE JsObject(obj[Len(children)])
    ELSE getDefaultForParamType(param.type, today)

RECURSIVE getDefaultValueForType(_, _)
\* getDefaultValueForType(param)
getDefaultValueForType(param, today) ==
    IF ~IsNull(param.enumValues) /\ Len(Val(param.enumValues)) > 0
    THEN JsString(Val(param.enumValues)[1])
    ELSE IF ~IsNull(DefaultValueOf(param))
    THEN Val(DefaultValueOf(param))
    ELSE IF ~IsNull(param.children) /\ Len(Val(param.children)) > 0
    THEN LET children == Val(param.children)
             obj[n \in 0..Len(children)] ==
                 IF n = 0
                 THEN <<>>
                 ELSE ObjSet(obj[n - 1], children[n].name,
                             getDefaultValueForType(children[n], today))
         IN  IF param.type = "array"
             THEN JsArray(<<JsObject(obj[Len(children)])>>)
             ELSE JsObject(obj[Len(children)])
    ELSE getDefaultForParamType(param.type, today)

(***************************************************************************)
(* SpecDefault: getDefaultValueForType called repeatedly on one parameter  *)
(* node, the clock read anew by each call                                  *)
(***************************************************************************)
MaxDepth == 2        \* most levels of children below a generated node
MaxRepeat == 2       \* most calls on one node

\* the dates the clock can give
Dates == {"2026-11-04", "2026-11-05"}

ParamTypes11 ==
    {"string", "integer", "number", "boolean", "array", "object", "file", "date",
     "email", "url", "uuid"}

\* a parameter node as the tests of the request builder write it;
\* defaultValue is null here when the field is left out
TestParam(name, type, enumValues, defaultValue, children) ==
    [name |-> name, type |-> type, required |-> FALSE, rules |-> <<>>,
     isPathParam |-> FALSE, enumValues |-> enumValues,
     defaultValue |-> defaultValue, children |-> children]

EnumChoices == {Null, Some(<<"draft", "published", "archived">>)}
DefaultChoices == {Null, Some(JsNumber(10))}

\* nodes without children, of every type
Leaves ==
    {TestParam("p", type, enumValues, defaultValue, children) :
        type \in ParamTypes11, enumValues \in EnumChoices \cup {Some(<<>>)},
        defaultValue \in DefaultChoices \cup {Some(JsNull)},
        children \in {Null, Some(<<>>)}}

\* the leaves nested below other nodes
NestedLeaves ==
    {TestParam("street", "string", Null, Null, Null),
     TestParam("status", "integer", Some(<<"draft", "published", "archived">>), Null, Null),
     TestParam("on", "date", Null, Null, Null),
     TestParam("count", "integer", Null, Some(JsNumber(10)), Null)}

RECURSIVE Nested(_)
\* the nodes with at most depth levels of children below them: a node has
\* one child, or that child and the leaf 'city'
Nested(depth) ==
    IF depth = 0
    THEN NestedLeaves
    ELSE NestedLeaves
            \cup {TestParam("address", shell[1], shell[2], shell[3], Some(children)) :
                    shell \in ({"array", "object"} \X EnumChoices \X DefaultChoices)
                                \cup {<<"string", Null, Null>>},
                    children \in UNION {{<<child>>,
                                         <<child, TestParam("city", "string",
                                                            Null, Null, Null)>>} :
                                        child \in Nested(depth - 1)}}

\* the nodes the schema builder makes of the generated rule lists, rule
\* mappings and URIs
BuiltParams(lists, mappings, uris) ==
    {createParam(i.name, i.rules) : i \in lists}
        \cup UNION {{tree[n] : n \in 1..Len(tree)} :
                    tree \in {parseValidationRules(m.rules) : m \in mappings}}
        \cup UNION {{tree[n] : n \in 1..Len(tree)} :
                    tree \in {extractPathParams(u.uri) : u \in uris}}

InitDefault ==
    /\ pc = "ready"
    /\ op = "getDefaultValueForType"
    /\ input \in Leaves \cup Nested(MaxDepth)
                    \cup BuiltParams(RuleListInputs, MappingInputs, UriInputs)
    /\ output = <<>>
    /\ files = <<>>
    /\ formRequestCache = <<>>
    /\ parsers = <<>>
    /\ calls = <<>>
    /\ routeStorage = <<>>

\* one more call on the node; output lists the values returned so far
GetDefaultValueForType ==
    /\ Len(output) < MaxRepeat
    /\ \E today \in Dates :
        output' = Append(output, getDefaultValueForType(input, today))
    /\ pc' = "done"
    /\ UNCHANGED <<op, input, world>>

NextDefault == GetDefaultValueForType

SpecDefault == InitDefault /\ [][NextDefault]_vars

HasEnumValues(param) == ~IsNull(param.enumValues) /\ Len(Val(param.enumValues)) > 0
HasChildren(param) == ~IsNull(param.children) /\ Len(Val(param.children)) > 0

\* C24: for a node with a non-empty enumValues list every call returns the
\* first enum value, whatever its explicit default, its children and its
\* type are, and so repeated calls on the node return the same value
C24_FirstEnumValueAlways ==
    HasEnumValues(input)
        => \A i \in 1..Len(output) : output[i] = JsString(Val(input.enumValues)[1])

\* two calls on a node with enum values, an explicit default and children
\* have returned 'draft'
C24_Witness ==
    /\ Len(output) = 2
    /\ input.enumValues = Some(<<"draft", "published", "archived">>)
    /\ ~IsNull(DefaultValueOf(input))
    /\ HasChildren(input)
    /\ output[1] = JsString("draft")
    /\ output[2] = JsString("draft")

\* the object that holds, under the name of each child, the value
\* synthesized for that child
ObjectOfChildren(param, today) ==
    [n \in 1..Len(Val(param.children)) |->
        <<Val(param.children)[n].name,
          getDefaultValueForType(Val(param.children)[n], today)>>]

\* C25: for a node without enum values every call returns the explicit
\* default when one is defined; otherwise, when the node has children, an
\* object with one key per child that holds the child's synthesized value,
\* wrapped in a single-element array when the node's type is array;
\* otherwise the canonical example of the node's type
C25_DefaultThenChildrenThenType ==
    ~HasEnumValues(input)
        => \A i \in 1..Len(output) :
            \E today \in Dates :
                output[i] =
                    IF ~IsNull(DefaultValueOf(input))
                    THEN Val(DefaultValueOf(input))
                    ELSE IF HasChildren(input)
                    THEN IF input.type = "array"
                         THEN JsArray(<<JsObject(ObjectOfChildren(input, today))>>)
                         ELSE JsObject(ObjectOfChildren(input, today))
                    ELSE getDefaultForParamType(input.type, today)

\* a node of type array without enum values and explicit default has been
\* given a single-element array holding an object that itself holds the
\* object synthesized for a child with children
C25_Witness ==
    /\ Len(output) > 0
    /\ ~HasEnumValues(input)
    /\ IsNull(DefaultValueOf(input))
    /\ HasChildren(input)
    /\ input.type = "array"
    /\ output[1][1] = "array"
    /\ Len(output[1][2]) = 1
    /\ \E n \in 1..Len(output[1][2][1][2]) : output[1][2][1][2][n][2][1] = "object"

(***************************************************************************)
(* SpecSynth: getDefaultValueForType call by call.  calls is the stack of  *)
(* the calls in progress, the innermost last; output lists the nodes the   *)
(* calls were made on, each by the child indices that lead to it from the  *)
(* root, and holds the value returned to the caller of the outermost call. *)
(***************************************************************************)
\* the call on param: next is the child the for loop is at, obj the object
\* filled so far
Frame(path, param) == [path |-> path, param |-> param, next |-> 1, obj |-> <<>>]

\* the children the for loop of a call on param goes through
ChildCount(param) == IF HasChildren(param) THEN Len(Val(param.children)) ELSE 0

\* the call returns before its for loop: enum values, an explicit default
\* or no children
ReturnsAtOnce(param) ==
    \/ HasEnumValues(param)
    \/ ~IsNull(DefaultValueOf(param))
    \/ ~HasChildren(param)

\* the value the call of frame returns, its children loop finished
ReturnValue(frame, today) ==
    IF HasEnumValues(frame.param)
    THEN JsString(Val(frame.param.enumValues)[1])
    ELSE IF ~IsNull(DefaultValueOf(frame.param))
    THEN Val(DefaultValueOf(frame.param))
    ELSE IF HasChildren(frame.param)
    THEN IF frame.param.type = "array"
         THEN JsArray(<<JsObject(frame.obj)>>)
         ELSE JsObject(frame.obj)
    ELSE getDefaultForParamType(frame.param.type, today)

\* the assignment obj[child.name] = <returned value> of the caller, whose
\* loop then goes on with the child it was at
ResumeSameChild(frame, name, value) ==
    [frame EXCEPT !.obj = ObjSet(frame.obj, name, value)]

\* the assignment obj[child.name] = <returned value> of the caller, whose
\* loop then goes on with the next child
Resume(frame, name, value) ==
    [frame EXCEPT !.obj = ObjSet(frame.obj, name, value), !.next = frame.next + 1]

InitSynth ==
    /\ pc = "ready"
    /\ op = "getDefaultValueForType"
    /\ input \in Nested(MaxDepth)
                    \cup BuiltParams(RuleListInputs, MappingInputs, UriInputs)
    /\ output = [visited |-> <<>>, value |-> Null]
    /\ files = <<>>
    /\ formRequestCache = <<>>
    /\ parsers = <<>>
    /\ calls = <<>>
    /\ routeStorage = <<>>

\* the call on the root node
CallOnRoot ==
    /\ pc = "ready"
    /\ calls' = <<Frame(<<>>, input)>>
    /\ output' = [output EXCEPT !.visited = Append(output.visited, <<>>)]
    /\ pc' = "running"
    /\ UNCHANGED <<op, input, files, formRequestCache, parsers, routeStorage>>

\* the for loop of the innermost call calls getDefaultValueForType on the
\* child it is at
CallOnChild ==
    /\ pc = "running"
    /\ LET top == calls[Len(calls)]
       IN  /\ ~ReturnsAtOnce(top.param)
           /\ top.next <= ChildCount(top.param)
           /\ calls' = Append(calls, Frame(Append(top.path, top.next),
                                           Val(top.param.children)[top.next]))
           /\ output' = [output EXCEPT
                            !.visited = Append(output.visited,
                                               Append(top.path, top.next))]
    /\ UNCHANGED <<pc, op, input, files, formRequestCache, parsers, routeStorage>>

\* the innermost call returns: to the for loop of its caller, or to the
\* caller of the outermost call
Return ==
    /\ pc = "running"
    /\ LET top == calls[Len(calls)]
       IN  /\ ReturnsAtOnce(top.param) \/ top.next > ChildCount(top.param)
           /\ \E today \in Dates :
                IF Len(calls) = 1
                THEN /\ calls' = <<>>
                     /\ output' = [output EXCEPT !.value = Some(ReturnValue(top, today))]
                     /\ pc' = "done"
                ELSE /\ calls' = Append(SubSeq(calls, 1, Len(calls) - 2),
                                        Resume(calls[Len(calls) - 1], top.param.name,
                                               ReturnValue(top, today)))
                     /\ UNCHANGED <<output, pc>>
    /\ UNCHANGED <<op, input, files, formRequestCache, parsers, routeStorage>>

NextSynth == CallOnRoot \/ CallOnChild \/ Return

\* a call that has been made runs on: the code is synchronous and nothing
\* else is scheduled before it returns
SpecSynth == InitSynth /\ [][NextSynth]_vars /\ WF_vars(NextSynth)

RECURSIVE Depth(_)
\* the levels of children below a node
Depth(param) ==
    IF ~HasChildren(param)
    THEN 0
    ELSE 1 + SetMax({Depth(Val(param.children)[n]) : n \in 1..Len(Val(param.children))})

RECURSIVE Reached(_)
\* the nodes of a tree that are not below a node with enum values or an
\* explicit default
Reached(param) ==
    {<<>>} \cup
        IF ReturnsAtOnce(param)
        THEN {}
        ELSE UNION {{<<n>> \o path : path \in Reached(Val(param.children)[n])} :
                    n \in 1..Len(Val(param.children))}

\* no node has been visited twice, every visited node is a node of the tree
\* that is reached, the calls in progress are never more than the levels of
\* the tree, and the value returned is the synthesized default
SynthBounded ==
    /\ \A i, j \in 1..Len(output.visited) :
            output.visited[i] = output.visited[j] => i = j
    /\ \A i \in 1..Len(output.visited) : output.visited[i] \in Reached(input)
    /\ Len(calls) <= 1 + Depth(input)
    /\ pc = "done"
        => /\ calls = <<>>
           /\ {output.visited[i] : i \in 1..Len(output.visited)} = Reached(input)
           /\ \E today \in Dates :
                output.value = Some(getDefaultValueForType(input, today))

\* C26: default synthesis terminates on every tree the schema builder can
\* produce (and on the hand-written trees): every call returns, each node is
\* visited at most once and the depth of the recursion never exceeds the
\* nesting depth of the tree
C26_SynthesisTerminates == [](SynthBounded) /\ <>(pc = "done")

\* the synthesis of a tree with two levels of children has returned, with
\* more than three nodes visited
C26_Witness ==
    /\ pc = "done"
    /\ op = "getDefaultValueForType"
    /\ Depth(input) = 2
    /\ Len(output.visited) > 3
    /\ ~IsNull(output.value)

(***************************************************************************)
(* RouteStorage (src/modules/routes/manager.ts): a Map from the key        *)
(* `${method} ${uri}` to the route                                         *)
(***************************************************************************)
\* the key of a route with the URI alone
RouteKeyUriOnly(method, uri) == uri

\* `${method} ${uri}`
RouteKey(method, uri) == method \o " " \o uri

\* RouteStorage.add(route) on the map routes
StorageAdd(routes, route) == MapSet(routes, RouteKey(route.method, route.uri), route)

\* RouteStorage.get(method, uri): null stands for undefined
StorageGet(routes, method, uri) ==
    IF ObjHas(routes, RouteKey(method, uri))
    THEN Some(ObjGet(routes, RouteKey(method, uri)))
    ELSE Null

\* RouteStorage.getAll(): the values in insertion order of their keys
StorageGetAll(routes) == [i \in 1..Len(routes) |-> routes[i][2]]

\* RouteStorage.size
StorageSize(routes) == Len(routes)

\* the map after RouteStorage.clear()
StorageClear == <<>>

(***************************************************************************)
(* SpecStorage: add, clear, get and size called on one RouteStorage; calls *)
(* lists the add and clear calls made so far                               *)
(***************************************************************************)
MaxOps == 3          \* most add and clear calls on the storage

StoredMethods == {"GET", "POST", "GET|HEAD"}
StoredUris == {"/api/users", "/api/users {id}"}

\* routes as parseRouteListJson makes them, two of each method and URI
StoredRoutes ==
    {[method |-> method, uri |-> uri, name |-> name] :
        method \in StoredMethods, uri \in StoredUris,
        name \in {"users.index.old", "users.index.new"}}

InitStorage ==
    /\ pc = "ready"
    /\ op = "RouteStorage"
    /\ input = Null
    /\ output = Null
    /\ files = <<>>
    /\ formRequestCache = <<>>
    /\ parsers = <<>>
    /\ calls = <<>>
    /\ routeStorage = <<>>

Add ==
    /\ Len(calls) < MaxOps
    /\ \E route \in StoredRoutes :
        /\ routeStorage' = StorageAdd(routeStorage, route)
        /\ calls' = Append(calls, [name |-> "add", route |-> route])
    /\ output' = Null
    /\ pc' = "done"
    /\ UNCHANGED <<op, input, files, formRequestCache, parsers>>

Clear ==
    /\ Len(calls) < MaxOps
    /\ routeStorage' = StorageClear
    /\ calls' = Append(calls, [name |-> "clear"])
    /\ output' = Null
    /\ pc' = "done"
    /\ UNCHANGED <<op, input, files, formRequestCache, parsers>>

Get ==
    /\ \E method \in StoredMethods, uri \in StoredUris :
        output' = [name |-> "get", method |-> method, uri |-> uri,
                   value |-> StorageGet(routeStorage, method, uri)]
    /\ pc' = "done"
    /\ UNCHANGED <<op, input, world>>

Size ==
    /\ output' = [name |-> "size", value |-> StorageSize(routeStorage)]
    /\ pc' = "done"
    /\ UNCHANGED <<op, input, world>>

NextStorage == Add \/ Clear \/ Get \/ Size

SpecStorage == InitStorage /\ [][NextStorage]_vars

\* the position of the last clear call, 0 when there is none
LastClear == SetMax({0} \cup {i \in 1..Len(calls) : calls[i].name = "clear"})

\* the positions of the add calls since the last clear that gave a route
\* of this method and URI
AddsOf(method, uri) ==
    {i \in (LastClear + 1)..Len(calls) :
        calls[i].route.method = method /\ calls[i].route.uri = uri}

\* the pairs (method, uri) added since the last clear
AddedPairs ==
    {<<calls[i].route.method, calls[i].route.uri>> : i \in (LastClear + 1)..Len(calls)}

\* what get(method, uri) must return
LatestAdded(method, uri) ==
    IF AddsOf(method, uri) = {}
    THEN Null
    ELSE Some(calls[SetMax(AddsOf(method, uri))].route)

\* C27: after any sequence of add and clear calls, size is the number of
\* distinct (method, uri) pairs added since the last clear, get(method, uri)
\* returns the route added last under that pair, undefined when there is
\* none, and right after a clear the size is 0
C27_KeyedByMethodAndUri ==
    /\ StorageSize(routeStorage) = Cardinality(AddedPairs)
    /\ \A method \in StoredMethods, uri \in StoredUris :
        StorageGet(routeStorage, method, uri) = LatestAdded(method, uri)
    /\ (Len(calls) > 0 /\ calls[Len(calls)].name = "clear")
        => StorageSize(routeStorage) = 0
    /\ (~IsNull(output) /\ output.name = "size")
        => output.value = Cardinality(AddedPairs)
    /\ (~IsNull(output) /\ output.name = "get")
        => output.value = LatestAdded(output.method, output.uri)

\* a route was added twice under one method and URI, and get has returned
\* the later one while the size is 1
C27_Witness ==
    /\ Len(calls) = 2
    /\ calls[1] = [name |-> "add",
                   route |-> [method |-> "GET", uri |-> "/api/users",
                              name |-> "users.index.old"]]
    /\ calls[2] = [name |-> "add",
                   route |-> [method |-> "GET", uri |-> "/api/users",
                              name |-> "users.index.new"]]
    /\ StorageSize(routeStorage) = 1
    /\ ~IsNull(output)
    /\ output.name = "get"
    /\ ~IsNull(output.value)
    /\ Val(output.value).name = "users.index.new"

(***************************************************************************)
(* identifyLaravelRoutes and parseRouteListJson                            *)
(* (src/modules/routes/manager.ts)                                         *)
(***************************************************************************)
\* s.includes(ch) for a single character
IncludesChar(s, ch) == \E i \in 0..(Len(s) - 1) : CharAt(s, i) = ch

\* one item of the JSON array of `route:list --json`: method is a string
\* or an array of strings
Item(method, uri, action) == [method |-> method, uri |-> uri, action |-> action]

\* the route parseRouteListJson makes of an item
RouteOfItem(item) ==
    [Route(item.uri,
           IF IncludesChar(item.action, "@") \/ IncludesChar(item.action, "\\")
           THEN Some(item.action)
           ELSE Null)
        EXCEPT !.method = IF item.method[1] = "array"
                          THEN Join(item.method[2], "|")
                          ELSE item.method[2]]

\* parseRouteListJson(stdout): no routes when stdout is no JSON
parseRouteListJson(stdout) ==
    IF stdout.json
    THEN [i \in 1..Len(stdout.items) |-> RouteOfItem(stdout.items[i])]
    ELSE <<>>

RECURSIVE AddAll(_, _)
\* for (const route of parsedRoutes) routeStorage.add(route)
AddAll(routes, parsedRoutes) ==
    IF Len(parsedRoutes) = 0
    THEN routes
    ELSE AddAll(StorageAdd(routes, Head(parsedRoutes)), Tail(parsedRoutes))

\* identifyLaravelRoutes that clears the storage before it looks at the
\* result of the command
identifyAfterExecClearFirst(routes, result) ==
    IF result.error = "" /\ ~IsNull(result.stdout)
    THEN AddAll(StorageClear, parseRouteListJson(Val(result.stdout)))
    ELSE StorageClear

\* identifyLaravelRoutes from the result of execAsync on: the storage it
\* leaves.  result.error is "" when the command succeeded; result.stdout is
\* null for an empty output
identifyAfterExec(routes, result) ==
    IF result.error = "" /\ ~IsNull(result.stdout)
    THEN AddAll(StorageClear, parseRouteListJson(Val(result.stdout)))
    ELSE routes

(***************************************************************************)
(* SpecIdentify: identifyLaravelRoutes called on a storage that holds the  *)
(* routes of an earlier output; calls holds the call while it awaits the   *)
(* command                                                                 *)
(***************************************************************************)
MaxItems == 2        \* most items in a generated route-list output

ListedItems ==
    {Item(<<"array", <<"GET", "HEAD">>>>, "api/u", "App\\C@f"),
     Item(<<"string", "POST">>, "api/u", "App\\C@f"),
     Item(<<"string", "POST">>, "api/u/{id}", "App\\D"),
     Item(<<"string", "GET">>, "up", "Closure")}

\* the outputs of the command: empty, no JSON, or a JSON array of items
Stdouts ==
    {Null, Some([json |-> FALSE, items |-> <<>>]), Some([json |-> TRUE, items |-> <<>>])}
        \cup {Some([json |-> TRUE, items |-> items]) : items \in Tuples(ListedItems, MaxItems)}

\* the ways execAsync rejects: PHP not found, the timeout, artisan not
\* found, any other failure
ExecErrors == {"ENOENT", "killed", "127", "failed"}

\* what execAsync gives: the output of a command that succeeded, or an
\* error, which can carry output as well
ExecResults ==
    {[error |-> "", stdout |-> stdout] : stdout \in Stdouts}
        \cup {[error |-> error, stdout |-> stdout] :
                error \in ExecErrors,
                stdout \in {Null, Some([json |-> TRUE,
                                        items |-> <<Item(<<"string", "GET">>, "up",
                                                         "Closure")>>])}}

InitIdentify ==
    /\ pc = "ready"
    /\ op = "identifyLaravelRoutes"
    /\ input = Null
    /\ output = Null
    /\ files = <<>>
    /\ formRequestCache = <<>>
    /\ parsers = <<>>
    /\ calls = <<>>
    /\ routeStorage \in {AddAll(StorageClear, parseRouteListJson(Val(stdout))) :
                            stdout \in Stdouts \ {Null}}

\* identifyLaravelRoutes up to `await execAsync(routeListCommand, ...)`
StartIdentify ==
    /\ pc = "ready"
    /\ calls' = <<[name |-> "identifyLaravelRoutes", before |-> routeStorage]>>
    /\ pc' = "exec"
    /\ UNCHANGED <<op, input, output, files, formRequestCache, parsers, routeStorage>>

\* the command ends and identifyLaravelRoutes runs to its end; input keeps
\* the result of the command
ExecEnds ==
    /\ pc = "exec"
    /\ \E result \in ExecResults :
        /\ input' = Some(result)
        /\ routeStorage' = identifyAfterExec(routeStorage, result)
    /\ pc' = "done"
    /\ UNCHANGED <<op, output, files, formRequestCache, parsers, calls>>

NextIdentify == StartIdentify \/ ExecEnds

SpecIdentify == InitIdentify /\ [][NextIdentify]_vars

\* C30: identifyLaravelRoutes replaces the routes in the storage only when
\* the command succeeded and produced output; when the command throws, times
\* out or exits with an error, and when it prints nothing, the storage is
\* left as it was before the call
C30_ReplacedOnlyOnSuccess ==
    [][/\ routeStorage' # routeStorage
            => /\ pc = "exec"
               /\ Val(input').error = ""
               /\ ~IsNull(Val(input').stdout)
               /\ routeStorage' = AddAll(StorageClear,
                                         parseRouteListJson(Val(Val(input').stdout)))
       /\ (pc = "exec" /\ Val(input').error # "") => routeStorage' = routeStorage]_vars

\* the command failed on a storage that held routes, and the routes are
\* still there
C30_Witness ==
    /\ pc = "done"
    /\ op = "identifyLaravelRoutes"
    /\ Val(input).error = "killed"
    /\ Len(routeStorage) = 2
    /\ routeStorage = calls[1].before

(***************************************************************************)
(* refreshRoutes (src/extension.ts): identifyLaravelRoutes, then           *)
(* parseRouteValidation on the routes then stored.  A call gives way to    *)
(* other calls where it awaits the route-list command and where            *)
(* parseFormRequest awaits the workspace search.                           *)
(***************************************************************************)
RECURSIVE ParseLoop(_, _, _, _, _)
\* the for loop of parseRouteValidation from the route at index next on,
\* up to its end or to the first route for which parseFormRequest awaits
\* the workspace search: the storage, the cache of the parser and where the
\* loop stands
ParseLoop(fs, routes, cache, snapshot, next) ==
    IF next > Len(snapshot)
    THEN [state |-> "done", routes |-> routes, cache |-> cache, next |-> next,
          class |-> Null]
    ELSE Only({IF begun.state = "resolved"
               THEN ParseLoop(fs,
                              StorageAdd(routes,
                                         parseRouteReturn(snapshot[next], begun.result)),
                              begun.cache, snapshot, next + 1)
               ELSE [state |-> "searching", routes |-> routes, cache |-> begun.cache,
                     next |-> next, class |-> begun.class] :
               begun \in {parseRouteBeforeSearch(fs, cache, snapshot[next])}})

\* refreshRoutes from the result of execAsync on: the rest of
\* identifyLaravelRoutes, then parseRouteValidation with a new parser on the
\* routes the storage holds then
refreshAfterExec(fs, routes, result) ==
    Only({[state |-> loop.state, routes |-> loop.routes, cache |-> loop.cache,
           next |-> loop.next, class |-> loop.class, snapshot |-> snapshot] :
          <<snapshot, loop>> \in
              {<<StorageGetAll(identified),
                 ParseLoop(fs, identified, NewFormRequestCache,
                           StorageGetAll(identified), 1)>> :
                  identified \in {identifyAfterExec(routes, result)}}})

\* refreshRoutes from the result of the workspace search on, found being
\* files[0] (null: no file)
refreshAfterSearch(fs, routes, call, found) ==
    Only({ParseLoop(fs,
                    StorageAdd(routes,
                               parseRouteReturn(call.snapshot[call.next], after.result)),
                    after.cache, call.snapshot, call.next + 1) :
          after \in {parseFormRequestAfterSearch(fs, call.cache, Val(call.class),
                                                 found)}})

(***************************************************************************)
(* SpecRefresh: PHP files are saved, each save starting a refreshRoutes    *)
(* that runs the route-list command on the routes the application has then *)
(***************************************************************************)
MaxRefreshes == 2    \* most saves of a PHP file

\* the workspace: the controller C, whose method f names the Form Request
\* SRequest, which is found by the workspace search only
RefreshWorkspace == <<InjectingController, ApiFile>>

RefreshItems ==
    {Item(<<"string", "POST">>, "api/u", "App\\C@f"),
     Item(<<"string", "POST">>, "api/u/{id}", "App\\C@f"),
     Item(<<"string", "GET">>, "up", "Closure")}

\* the outputs of the route-list command
RefreshStdouts ==
    {Some([json |-> TRUE, items |-> items]) : items \in Tuples(RefreshItems, MaxItems)}

InitRefresh ==
    /\ pc = "ready"
    /\ op = "refreshRoutes"
    /\ input = Null
    /\ output = Null
    /\ files = RefreshWorkspace
    /\ formRequestCache = <<>>
    /\ parsers = <<>>
    /\ calls = <<>>
    /\ routeStorage = <<>>

\* a PHP file is saved: onDidSaveTextDocument calls refreshRoutes, which
\* runs up to `await execAsync` in identifyLaravelRoutes.  stdout is what
\* the command started now will print; overlaps tells whether an earlier
\* refresh is still running
SaveFile ==
    /\ Len(calls) < MaxRefreshes
    /\ \E stdout \in RefreshStdouts :
        calls' = Append(calls,
                        [state |-> "exec", stdout |-> stdout, error |-> "",
                         overlaps |-> \E c \in 1..Len(calls) : calls[c].state # "done",
                         cache |-> <<>>, snapshot |-> <<>>, next |-> 0,
                         class |-> Null])
    /\ pc' = "running"
    /\ UNCHANGED <<op, input, output, files, formRequestCache, parsers, routeStorage>>

\* the command of a refresh ends, with its output or with an error, and the
\* refresh runs on to its end or to its first workspace search
RefreshExecEnds ==
    /\ \E c \in 1..Len(calls) :
        /\ calls[c].state = "exec"
        /\ \E result \in {[error |-> "", stdout |-> calls[c].stdout],
                          [error |-> "failed", stdout |-> Null]} :
            \E after \in {refreshAfterExec(files, routeStorage, result)} :
                /\ routeStorage' = after.routes
                /\ calls' = [calls EXCEPT ![c] =
                                [@ EXCEPT !.state = after.state,
                                          !.error = result.error,
                                          !.cache = after.cache,
                                          !.snapshot = after.snapshot,
                                          !.next = after.next,
                                          !.class = after.class]]
    /\ UNCHANGED <<pc, op, input, output, files, formRequestCache, parsers>>

\* the workspace search of a refresh ends and the refresh runs on to its
\* end or to its next workspace search
RefreshSearchEnds ==
    /\ \E c \in 1..Len(calls) :
        /\ calls[c].state = "searching"
        /\ \E found \in FirstFound(files, Val(calls[c].class)) :
            \E after \in {refreshAfterSearch(files, routeStorage, calls[c], found)} :
                /\ routeStorage' = after.routes
                /\ calls' = [calls EXCEPT ![c] =
                                [@ EXCEPT !.state = after.state,
                                          !.cache = after.cache,
                                          !.next = after.next,
                                          !.class = after.class]]
    /\ UNCHANGED <<pc, op, input, output, files, formRequestCache, parsers>>

NextRefresh == SaveFile \/ RefreshExecEnds \/ RefreshSearchEnds

SpecRefresh == InitRefresh /\ [][NextRefresh]_vars

\* every refresh has finished, and every one ran its command with success
AllRefreshed ==
    /\ Len(calls) > 0
    /\ \A c \in 1..Len(calls) : calls[c].state = "done" /\ calls[c].error = ""

\* the routes of the output of the command that was started last
LatestRoutes == parseRouteListJson(Val(calls[Len(calls)].stdout))

\* C28: when refreshes overlapped and all have finished, the storage holds
\* exactly the routes of the most recent route-list output, each with its
\* parsed parameters
C28_LatestOutputWins ==
    (AllRefreshed /\ \E c \in 1..Len(calls) : calls[c].overlaps)
        => /\ {routeStorage[i][1] : i \in 1..Len(routeStorage)}
                = {RouteKey(LatestRoutes[i].method, LatestRoutes[i].uri) :
                      i \in 1..Len(LatestRoutes)}
           /\ \A i \in 1..Len(routeStorage) : ~IsNull(routeStorage[i][2].requestParams)

(***************************************************************************)
(* parseAllRoutes (src/modules/routes/parser.ts): the bulk pass, with      *)
(* files whose read throws                                                 *)
(***************************************************************************)
\* a try block without a catch: what is thrown goes on to the caller
Rethrow(attempt) == attempt

\* try { ... } catch (error) { return null; } of parseControllerValidation
Catch(attempt) ==
    IF attempt.thrown
    THEN [thrown |-> FALSE, result |-> Null, cache |-> attempt.cache]
    ELSE attempt

\* the try block of parseControllerValidation when readFileSync throws for
\* the files of unreadable: thrown tells whether it ended by an exception,
\* which happens at the first read of such a file, before the cache is
\* written
tryParseControllerValidation(fs, cache, controllerPath, methodName, found, unreadable) ==
    IF ExistsSync(fs, controllerPath) /\ controllerPath \in unreadable
    THEN [thrown |-> TRUE, result |-> Null, cache |-> cache]
    ELSE Only({IF /\ ~IsNull(parsed.result)
                  /\ Val(parsed.result).source = "form-request"
                  /\ ~ObjHas(cache, Val(Val(parsed.result).formRequestClass))
                  /\ Val(Val(parsed.result).formRequestPath) \in unreadable
               THEN [thrown |-> TRUE, result |-> Null, cache |-> cache]
               ELSE [thrown |-> FALSE, result |-> parsed.result, cache |-> parsed.cache] :
               parsed \in {parseControllerValidation(fs, cache, controllerPath,
                                                     methodName, found)}})

\* parseRoute(route) with such files: thrown tells whether the promise it
\* returns is rejected
parseRouteOrThrow(fs, cache, route, found, unreadable) ==
    IF Truthy(route.controller)
    THEN Only({[thrown |-> attempt.thrown,
                route |-> parseRouteReturn(route, attempt.result),
                cache |-> attempt.cache] :
               attempt \in
                   {Catch(tryParseControllerValidation(fs, cache, info.path, info.method,
                                                      found, unreadable)) :
                       info \in {parseControllerString(Val(route.controller))}}})
    ELSE [thrown |-> FALSE, route |-> parseRouteReturn(route, Null), cache |-> cache]

(***************************************************************************)
(* SpecBulk: parseAllRoutes on the routes of the storage.  input holds the *)
(* routes the pass goes through and the files that cannot be read during   *)
(* the pass, output the parsed routes pushed so far.                       *)
(***************************************************************************)
MaxRoutes == 2       \* most routes in the storage

SRequestFile == "/w/app/Http/Requests/SRequest.php"

\* controllers: C validates inline, F names the Form Request SRequest, D
\* names a Form Request that does not exist, E breaks off inside its rules
\* array; there is no file of a controller M and no method g
BulkWorkspace ==
    <<<<"/w/app/C.php", ControllerText("", "$request->validate(['a'=>'required']);")>>,
      <<"/w/app/F.php", ControllerText("SRequest $r", "")>>,
      <<SRequestFile, RulesOfDirect>>,
      <<"/w/app/D.php", ControllerText("XRequest $r", "")>>,
      <<"/w/app/E.php", ControllerText("", "$request->validate(['a'=>['required'")>>>>

\* the routes that can be parsed when every file can be read
GoodRoutes ==
    {Route("api/c/{id}", Some("App\\C@f")), Route("api/f/{id}", Some("App\\F@f"))}

\* the routes whose parsing fails: controller file missing, method missing,
\* Form Request missing, unparseable text
FailingRoutes ==
    {Route("api/m/{id}", Some("App\\M@f")), Route("api/g/{id}", Some("App\\C@g")),
     Route("api/d/{id}", Some("App\\D@f")), Route("api/e/{id}", Some("App\\E@f"))}

UnreadableSets == {{}, {"/w/app/C.php"}, {SRequestFile}, {"/w/app/C.php", SRequestFile}}

InitBulk ==
    /\ pc = "ready"
    /\ op = "parseAllRoutes"
    /\ input = Null
    /\ output = <<>>
    /\ files = BulkWorkspace
    /\ formRequestCache = <<>>
    /\ parsers = <<>>
    /\ calls = <<>>
    /\ routeStorage \in {AddAll(StorageClear, routes) :
                            routes \in Tuples(GoodRoutes \cup FailingRoutes, MaxRoutes)}

\* parseAllRoutes up to its loop: the routes are those of the storage
ParseAllRoutes ==
    /\ pc = "ready"
    /\ \E unreadable \in UnreadableSets :
        input' = [routes |-> StorageGetAll(routeStorage), unreadable |-> unreadable]
    /\ pc' = IF Len(routeStorage) = 0 THEN "done" ELSE "running"
    /\ UNCHANGED <<op, output, world>>

\* one turn of the loop: `await this.parseRoute(route)` and the push of its
\* result; an exception out of parseRoute rejects parseAllRoutes
ParseNextRoute ==
    /\ pc = "running"
    /\ LET route == input.routes[Len(output) + 1]
       IN  \E parsed \in {parseRouteOrThrow(files, formRequestCache, route, Null,
                                            input.unreadable)} :
                IF parsed.thrown
                THEN /\ pc' = "rejected"
                     /\ UNCHANGED <<output, formRequestCache>>
                ELSE /\ output' = Append(output, parsed.route)
                     /\ formRequestCache' = parsed.cache
                     /\ pc' = IF Len(output) + 1 = Len(input.routes)
                              THEN "done"
                              ELSE "running"
    /\ UNCHANGED <<op, input, files, parsers, calls, routeStorage>>

NextBulk == ParseAllRoutes \/ ParseNextRoute

SpecBulk == InitBulk /\ [][NextBulk]_vars

\* the route fails in this pass: it is one of the failing routes, or a file
\* it needs cannot be read
Fails(route) ==
    \/ route \in FailingRoutes
    \/ route.controller = Some("App\\C@f") /\ "/w/app/C.php" \in input.unreadable
    \/ route.controller = Some("App\\F@f") /\ SRequestFile \in input.unreadable

\* C22: in a bulk pass no failure of one route (controller file missing,
\* method missing, Form Request missing, unparseable text, an exception
\* while reading) keeps the other routes from being parsed: the pass is
\* never rejected, every route of the list gets its result, the result of a
\* failing route has no rule-derived parameters and the result of every
\* other route has them
C22_FailuresAreIsolated ==
    /\ pc # "rejected"
    /\ (op = "parseAllRoutes" /\ pc \in {"running", "done"})
        => \A i \in 1..Len(output) :
            LET route == input.routes[i]
                pathParams == extractPathParams(route.uri)
            IN  /\ output[i].method = route.method
                /\ output[i].uri = route.uri
                /\ ~IsNull(output[i].requestParams)
                /\ IF Fails(route)
                   THEN Val(output[i].requestParams) = pathParams
                   ELSE /\ Len(Val(output[i].requestParams)) > Len(pathParams)
                        /\ SubSeq(Val(output[i].requestParams), 1, Len(pathParams))
                                = pathParams
    /\ (op = "parseAllRoutes" /\ pc = "done") => Len(output) = Len(input.routes)

\* a pass has finished whose first route failed on a file that could not be
\* read and whose second route has its rule-derived parameters
C22_Witness ==
    /\ op = "parseAllRoutes"
    /\ pc = "done"
    /\ Len(output) = 2
    /\ input.routes[1].controller = Some("App\\C@f")
    /\ "/w/app/C.php" \in input.unreadable
    /\ Val(output[1].requestParams) = extractPathParams(input.routes[1].uri)
    /\ ~Fails(input.routes[2])
    /\ Len(Val(output[2].requestParams)) = 2

====
